---- MODULE Spec2Model ----
(***************************************************************************)
(* State-machine model of the autonomous-agent core of simDevTools:        *)
(* NeedsSystem (js/needs-system.js), FunctionalItem (item contract),       *)
(* EntityManager (js/entity-manager.js), NPC (js/npc.js) and the frame     *)
(* loop / editing operations of MapRenderer.                               *)
(*                                                                         *)
(* Number representation.  JavaScript numbers are modelled by exact        *)
(* integers:                                                               *)
(*   - need values and amounts in micro-points (Pt = 10^6 units per point) *)
(*   - a need's priority p as the numerator p * max  (max is 100 points)   *)
(*   - times in milliseconds (Date.now(), deltaTime, useTime)              *)
(*   - an entity's pixel position along a move as the number of move       *)
(*     steps taken (each step is moveSpeed = 0.8 px on the segment)        *)
(* IEEE rounding is outside the model.                                     *)
(***************************************************************************)
EXTENDS Integers, Sequences, FiniteSets, TLC

\* ------------------------------------------------------------------ bounds
\* frames of the game loop explored in the world specification
MaxTicks == 60
\* operations explored in the item contract specification (ItemSpec)
MaxItemOps == 5
\* operations explored in the needs specification (NeedsSpec)
MaxNeedOps == 4

\* ------------------------------------------------------------- number units
Pt == 10 ^ 6
NULL == 0
\* null where the non-null values are records
NullRec == [type |-> "null"]

\* ========================================================================
\* NeedsSystem  (js/needs-system.js)
\* ========================================================================

\* Object.entries order of the needs object: insertion order of needTypes
Kinds == <<"hunger", "thirst", "sleep", "happiness", "social">>
KindSet == {Kinds[i] : i \in 1..Len(Kinds)}

\* needTypes: max in micro-points, decayRate in micro-points per millisecond
\* (0.5 points per second = 500 micro-points per millisecond)
needTypes ==
  [hunger    |-> [max |-> 100 * Pt, decayRate |-> 500],
   thirst    |-> [max |-> 100 * Pt, decayRate |-> 400],
   sleep     |-> [max |-> 100 * Pt, decayRate |-> 300],
   happiness |-> [max |-> 100 * Pt, decayRate |-> 200],
   social    |-> [max |-> 100 * Pt, decayRate |-> 250]]

Max2(a, b) == IF a >= b THEN a ELSE b
Min2(a, b) == IF a <= b THEN a ELSE b

\* initializeNeeds(): every need at value = max, priority 0
initializeNeeds ==
  [k \in KindSet |-> [value |-> needTypes[k].max, max |-> needTypes[k].max, priority |-> 0]]

\* one need after a decay of `amount`: value = Math.max(0, value - amount),
\* priority = 1 - value / max   (kept as the numerator max - value)
decayNeed(need, amount) ==
  LET v == Max2(0, need.value - amount)
  IN  [need EXCEPT !.value = v, !.priority = need.max - v]

\* updateNeeds(needs, deltaTime): deltaTime given in milliseconds
updateNeeds(needs, deltaMs) ==
  [k \in KindSet |-> decayNeed(needs[k], needTypes[k].decayRate * deltaMs)]

\* satisfyNeed(needs, needType, amount): value = Math.min(max, value + amount);
\* priority is not touched
satisfyNeed(needs, needType, amount) ==
  IF needType \in DOMAIN needs
  THEN [needs EXCEPT ![needType].value = Min2(needs[needType].max, needs[needType].value + amount)]
  ELSE needs

\* variant: a later kind replaces an earlier one of equal priority
RECURSIVE urgentLoop_lastWins(_, _, _, _)
urgentLoop_lastWins(needs, i, maxPriority, urgentNeed) ==
  IF i > Len(Kinds) THEN [maxPriority |-> maxPriority, urgentNeed |-> urgentNeed]
  ELSE IF needs[Kinds[i]].priority >= maxPriority /\ needs[Kinds[i]].priority > 0
       THEN urgentLoop_lastWins(needs, i + 1, needs[Kinds[i]].priority, Kinds[i])
       ELSE urgentLoop_lastWins(needs, i + 1, maxPriority, urgentNeed)

\* the loop of getMostUrgentNeed over the kinds from index i on, carrying
\* (maxPriority, urgentNeed)
RECURSIVE urgentLoop(_, _, _, _)
urgentLoop(needs, i, maxPriority, urgentNeed) ==
  IF i > Len(Kinds) THEN [maxPriority |-> maxPriority, urgentNeed |-> urgentNeed]
  ELSE IF needs[Kinds[i]].priority > maxPriority
       THEN urgentLoop(needs, i + 1, needs[Kinds[i]].priority, Kinds[i])
       ELSE urgentLoop(needs, i + 1, maxPriority, urgentNeed)

\* getMostUrgentNeed(needs): the kind, or "none" for null.
\* maxPriority > 0.3  is  10 * numerator > 3 * max  (max is the same for all kinds)
getMostUrgentNeed(needs) ==
  LET r == urgentLoop(needs, 1, 0, "none")
  IN  IF 10 * r.maxPriority > 3 * (100 * Pt) THEN r.urgentNeed ELSE "none"

\* isCritical(needs): some value / max < 0.2
isCritical(needs) ==
  \E k \in KindSet : 10 * needs[k].value < 2 * needs[k].max

\* ========================================================================
\* FunctionalItem  (item contract)
\* ========================================================================

\* ItemDefinitions.getDefinitions(): satisfies in micro-points, useTime in ms
ItemDefs ==
  [apple  |-> [satisfies |-> [hunger |-> 30 * Pt, happiness |-> 5 * Pt], useTime |-> 2000],
   meal   |-> [satisfies |-> [hunger |-> 60 * Pt, happiness |-> 10 * Pt], useTime |-> 5000],
   water  |-> [satisfies |-> [thirst |-> 40 * Pt], useTime |-> 1000],
   coffee |-> [satisfies |-> [thirst |-> 30 * Pt, sleep |-> (0 - 10) * Pt, happiness |-> 15 * Pt],
               useTime |-> 2000]]
\* the definitions the editor selects in the world specifications
DefKeys == {"apple", "water", "coffee"}

\* new FunctionalItem(x, y, def.name, def)
FunctionalItem(x, y, defKey) ==
  [type |-> "functional", tileX |-> x, tileY |-> y, itemDef |-> defKey,
   inUse |-> FALSE, usedBy |-> NULL, useTime |-> 0,
   maxUseTime |-> ItemDefs[defKey].useTime,
   active |-> TRUE, markedForRemoval |-> FALSE]

canSatisfy(item, needType) ==
  /\ needType \in DOMAIN ItemDefs[item.itemDef].satisfies
  /\ ItemDefs[item.itemDef].satisfies[needType] > 0

getSatisfactionAmount(item, needType) ==
  IF needType \in DOMAIN ItemDefs[item.itemDef].satisfies
  THEN ItemDefs[item.itemDef].satisfies[needType] ELSE 0

\* variant: the inUse guard is missing
startUse_noGuard(item, entityId) ==
  [ok |-> TRUE, item |-> [item EXCEPT !.inUse = TRUE, !.usedBy = entityId, !.useTime = 0]]

\* variant: the elapsed time is reset before the inUse guard
startUse_resetsTime(item, entityId) ==
  IF item.inUse THEN [ok |-> FALSE, item |-> [item EXCEPT !.useTime = 0]]
  ELSE [ok |-> TRUE, item |-> [item EXCEPT !.inUse = TRUE, !.usedBy = entityId, !.useTime = 0]]

\* startUse(entityId): result and the item afterwards
startUse(item, entityId) ==
  IF item.inUse THEN [ok |-> FALSE, item |-> item]
  ELSE [ok |-> TRUE, item |-> [item EXCEPT !.inUse = TRUE, !.usedBy = entityId, !.useTime = 0]]

\* variant: the accumulated time survives the release
completeUse_keepTime(item) ==
  [item EXCEPT !.inUse = FALSE, !.usedBy = NULL]

\* completeUse()
completeUse(item) ==
  [item EXCEPT !.inUse = FALSE, !.usedBy = NULL, !.useTime = 0]

\* updateUse(deltaTime): deltaTime in milliseconds
updateUse(item, deltaMs) ==
  IF ~item.inUse THEN [done |-> FALSE, item |-> item]
  ELSE LET t == item.useTime + deltaMs
       IN  IF t >= item.maxUseTime
           THEN [done |-> TRUE, item |-> completeUse([item EXCEPT !.useTime = t])]
           ELSE [done |-> FALSE, item |-> [item EXCEPT !.useTime = t]]

\* stopUse()
stopUse(item) ==
  [item EXCEPT !.inUse = FALSE, !.usedBy = NULL, !.useTime = 0]

isAvailable(item) == ~item.inUse

\* ========================================================================
\* TimeSystem  (js/time-system.js), the part NPC.update reads
\* ========================================================================

\* currentTime in milli-minutes (1/1000 of a game minute)
dayLength == 24 * 60 * 1000

\* new TimeSystem(): 6:00 AM, timeScale 60, running
TimeSystem == [currentTime |-> 6 * 60 * 1000, timeScale |-> 60, isPaused |-> FALSE]

\* update(deltaTime): deltaMinutes = deltaTime / 1000 * timeScale / 60
timeUpdate(ts, deltaMs) ==
  IF ts.isPaused THEN ts
  ELSE LET c == ts.currentTime + (deltaMs * ts.timeScale) \div 60
       IN  [ts EXCEPT !.currentTime = IF c >= dayLength THEN c % dayLength ELSE c]

\* the thresholds of the constructor, in milli-minutes from midnight
dawn == 6 * 60 * 1000
morning == 9 * 60 * 1000
noon == 12 * 60 * 1000
afternoon == 15 * 60 * 1000
evening == 18 * 60 * 1000
night == 21 * 60 * 1000

\* variant: the night starts with the evening
getTimeOfDay_earlyNight(ts) ==
  LET time == ts.currentTime
  IN  IF time >= evening \/ time < dawn THEN "night"
      ELSE IF time >= afternoon THEN "afternoon"
      ELSE IF time >= noon THEN "noon"
      ELSE IF time >= morning THEN "morning"
      ELSE IF time >= dawn THEN "dawn"
      ELSE "night"

\* getTimeOfDay()
getTimeOfDay(ts) ==
  LET time == ts.currentTime
  IN  IF time >= night \/ time < dawn THEN "night"
      ELSE IF time >= evening THEN "evening"
      ELSE IF time >= afternoon THEN "afternoon"
      ELSE IF time >= noon THEN "noon"
      ELSE IF time >= morning THEN "morning"
      ELSE IF time >= dawn THEN "dawn"
      ELSE "night"

\* isNighttime()
isNighttime(ts) ==
  getTimeOfDay(ts) \in {"night", "midnight"}

\* setTime(hours, minutes)
setTime(ts, hours, minutes) ==
  LET c == (hours * 60 + minutes) * 1000
  IN  [ts EXCEPT !.currentTime = IF c >= dayLength THEN c % dayLength ELSE c]

\* setPaused(paused)
setPaused(ts, paused) == [ts EXCEPT !.isPaused = paused]

\* variant: the scale is capped at 3600 but has no floor
setTimeScale_noFloor(ts, scale) ==
  [ts EXCEPT !.timeScale = Min2(3600, scale)]

\* setTimeScale(scale)
setTimeScale(ts, scale) ==
  [ts EXCEPT !.timeScale = Max2(1, Min2(3600, scale))]

\* getNeedDecayModifier(needType), in tenths (0.3 -> 3, 1.5 -> 15, 0.7 -> 7, 1.0 -> 10)
getNeedDecayModifier(ts, needType) ==
  CASE needType = "sleep" -> IF isNighttime(ts) THEN 3 ELSE 15
    [] needType \in {"hunger", "thirst"} -> 10
    [] needType \in {"happiness", "social"} -> IF isNighttime(ts) THEN 7 ELSE 10
    [] OTHER -> 10

\* the time-modified decay loop of NPC.update: timeDelta in milliseconds
decayWithModifiers(needs, ts, timeDeltaMs) ==
  [k \in KindSet |->
     decayNeed(needs[k],
               ((needTypes[k].decayRate * getNeedDecayModifier(ts, k)) \div 10) * timeDeltaMs)]

\* ========================================================================
\* ActivityLogger  (part_002)
\* ========================================================================

\* new ActivityLogger(maxEntries); main constructs it with 50
ActivityLogger(maxEntries) ==
  [entries |-> <<>>, maxEntries |-> maxEntries, listeners |-> <<>>]

\* variant: nothing is ever evicted
log_noEviction(logger, entry) ==
  [logger |-> [logger EXCEPT !.entries = Append(@, entry)],
   calls |-> [i \in 1..Len(logger.listeners) |-> <<logger.listeners[i], entry>>]]

\* log(message, type, data): the logger afterwards and the listener calls
\* made, in order, each as <<listener, argument>>
log(logger, entry) ==
  LET pushed == Append(logger.entries, entry)
  IN  [logger |-> [logger EXCEPT !.entries = IF Len(pushed) > logger.maxEntries
                                             THEN Tail(pushed) ELSE pushed],
       calls |-> [i \in 1..Len(logger.listeners) |-> <<logger.listeners[i], entry>>]]

\* addListener(callback)
addListener(logger, callback) ==
  [logger EXCEPT !.listeners = Append(@, callback)]

\* removeListener(callback): the first registration of the callback
removeListener(logger, callback) ==
  IF \E i \in 1..Len(logger.listeners) : logger.listeners[i] = callback
  THEN LET index == CHOOSE i \in 1..Len(logger.listeners) :
                      /\ logger.listeners[i] = callback
                      /\ \A j \in 1..(i - 1) : logger.listeners[j] # callback
       IN  [logger EXCEPT !.listeners =
              SubSeq(@, 1, index - 1) \o SubSeq(@, index + 1, Len(@))]
  ELSE logger

\* clear(): the logger afterwards and the listener calls made
clearLog(logger) ==
  [logger |-> [logger EXCEPT !.entries = <<>>],
   calls |-> [i \in 1..Len(logger.listeners) |-> <<logger.listeners[i], "null">>]]

\* ========================================================================
\* World state
\* ========================================================================

\* map size (MapRenderer.mapWidth / mapHeight, set by createNewMap) in the
\* world specification
MapWidth == 2
MapHeight == 1
\* map size in the specifications of single steps and of interactions
StepWidth == 3
StepHeight == 1
\* width and height of the map in the approach specification
ApproachSize == 3
\* entities created in one session
MaxEntities == 3
\* the editor acts before each of the first EditWindow frames and then before
\* every EditEvery-th frame
EditWindow == 3
EditEvery == 15
\* frame durations of the game loop, in ms (one per session)
FrameSet == {60, 400}
\* Date.now() when the session starts, in ms
Epoch == 2 * 10 ^ 6

\* the tiles of the largest map; MapTiles are the tiles of the current map
Tiles ==
  (0..(Max2(Max2(MapWidth, StepWidth), ApproachSize) - 1))
    \X (0..(Max2(Max2(MapHeight, StepHeight), ApproachSize) - 1))

VARIABLES
  now,                 \* Date.now() at the last frame
  frameMs,             \* duration of a frame
  ticks,               \* frames run
  timeSystem,          \* window.timeSystem
  ents,                \* every entity object created, by id
  entities,            \* EntityManager.entities, in insertion order
  entitiesByType,      \* EntityManager.entitiesByType, in insertion order
  entitiesByPosition,  \* EntityManager.entitiesByPosition: tile -> ids
  mapWidth,            \* MapRenderer.mapWidth
  mapHeight,           \* MapRenderer.mapHeight
  activityLogger,      \* window.activityLogger
  pass,                \* StepSpec: position inside MapRenderer.update and the last step
  cItem,               \* ItemSpec: the item under test
  cRet,                \* ItemSpec / NeedsSpec: the last operation and its result
  cNeeds,              \* NeedsSpec: the needs object under test
  cOps                 \* ItemSpec / NeedsSpec: operations applied

MapTiles == {p \in Tiles : p[1] < mapWidth /\ p[2] < mapHeight}

vars == <<now, frameMs, ticks, timeSystem, ents, entities, entitiesByType,
          entitiesByPosition, mapWidth, mapHeight, activityLogger, pass, cItem, cRet, cNeeds, cOps>>
worldVars == <<now, frameMs, ticks, timeSystem, ents, entities, entitiesByType,
               entitiesByPosition, mapWidth, mapHeight, activityLogger>>
contractVars == <<pass, cItem, cRet, cNeeds, cOps>>

\* ========================================================================
\* Entity / NPC construction
\* ========================================================================

\* personality.social of a new agent, in tenths: Math.random() is taken at
\* 0.5 here; SocialSpec varies the field
Sociability == 5

\* new NPC(x, y, name): Entity fields, needs from initializeNeeds(), no goal,
\* timers at 0.  moveSteps stands for pixelX / pixelY: the entity is
\* moveSteps steps of 0.8 px from (32 * tileX, 32 * tileY) toward the target.
NPC(x, y) ==
  [type |-> "npc", tileX |-> x, tileY |-> y, moveSteps |-> 0,
   active |-> TRUE, markedForRemoval |-> FALSE,
   needs |-> initializeNeeds,
   currentGoal |-> NullRec, targetItem |-> NULL, usingItem |-> FALSE, useStartTime |-> 0,
   isMoving |-> FALSE, targetTileX |-> x, targetTileY |-> y,
   lastAITime |-> 0, lastNeedUpdate |-> 0,
   relationships |-> [i \in {} |-> 0],
   social |-> Sociability]

\* squared tile distance; getDistance(a, b) = sqrt(Dist2(a, b))
Dist2(a, b) ==
  (a.tileX - b.tileX) * (a.tileX - b.tileX) + (a.tileY - b.tileY) * (a.tileY - b.tileY)

\* isAtPosition(x, y)
isAtPosition(e, x, y) == e.tileX = x /\ e.tileY = y

SeqToSet(s) == {s[i] : i \in 1..Len(s)}
SeqWithout(s, x) == SelectSeq(s, LAMBDA y : y # x)

\* ========================================================================
\* EntityManager  (js/entity-manager.js)
\* A manager m is [entities, entitiesByType, entitiesByPosition]; E is the
\* object heap (id -> entity).
\* ========================================================================

\* getByType(type)
getByType(m, type) == m.entitiesByType[type]

\* getAtPosition(x, y): ids in the bucket of the key "x,y" (none if no bucket)
getAtPosition(m, x, y) ==
  IF <<x, y>> \in DOMAIN m.entitiesByPosition THEN m.entitiesByPosition[<<x, y>>] ELSE {}

\* indexEntityPosition(entity): add to the bucket of its current tile
indexEntityPosition(m, E, id) ==
  [m EXCEPT !.entitiesByPosition[<<E[id].tileX, E[id].tileY>>] = @ \cup {id}]

\* unindexEntityPosition(entity): delete from the bucket of its current tile
unindexEntityPosition(m, E, id) ==
  [m EXCEPT !.entitiesByPosition[<<E[id].tileX, E[id].tileY>>] = @ \ {id}]

\* Math.floor(pixel / 32) for one coordinate of an entity that has taken k
\* steps from tile t toward tile t + d on a segment of squared tile length d2:
\* pixel / 32 = t + d * k / (40 * sqrt(d2))
pixelTile(t, d, k, d2) ==
  IF d = 0 \/ k = 0 THEN t
  ELSE IF d > 0
       THEN t + CHOOSE m \in 0..d :
                  /\ m * m * 1600 * d2 <= k * k * d * d
                  /\ \A n \in 0..d : n * n * 1600 * d2 <= k * k * d * d => n <= m
       ELSE t - CHOOSE m \in 0..(0 - d) :
                  /\ m * m * 1600 * d2 >= k * k * d * d
                  /\ \A n \in 0..(0 - d) : n * n * 1600 * d2 >= k * k * d * d => n >= m

\* the tile "Math.floor(pixelX / 32), Math.floor(pixelY / 32)" of an entity
pixelKey(e) ==
  IF e.type = "npc" /\ e.moveSteps > 0
  THEN LET dx == e.targetTileX - e.tileX
           dy == e.targetTileY - e.tileY
           d2 == dx * dx + dy * dy
       IN  <<pixelTile(e.tileX, dx, e.moveSteps, d2), pixelTile(e.tileY, dy, e.moveSteps, d2)>>
  ELSE <<e.tileX, e.tileY>>

\* updateEntityPosition(entity)
updateEntityPosition(m, E, id) ==
  LET oldKey == pixelKey(E[id])
      newKey == <<E[id].tileX, E[id].tileY>>
  IN  IF oldKey # newKey
      THEN indexEntityPosition(unindexEntityPosition(m, E, id), E, id)
      ELSE m

\* add(entity)
add(m, E, id) ==
  indexEntityPosition(
    [m EXCEPT !.entities = Append(@, id),
              !.entitiesByType[E[id].type] = IF id \in SeqToSet(@) THEN @ ELSE Append(@, id)],
    E, id)

\* remove(id)
remove(m, E, id) ==
  IF id \notin SeqToSet(m.entities) THEN m
  ELSE unindexEntityPosition(
         [m EXCEPT !.entities = SeqWithout(@, id),
                   !.entitiesByType[E[id].type] = SeqWithout(@, id)],
         E, id)

\* new EntityManager() / clear()
EntityManager ==
  [entities |-> <<>>,
   entitiesByType |-> [t \in {"npc", "functional"} |-> <<>>],
   entitiesByPosition |-> [p \in Tiles |-> {}]]

\* ========================================================================
\* NPC  (js/npc.js)
\* A world w is [E, m]: the object heap and the entity manager.  Operations
\* that read Math.random() yield the set of worlds they can produce.
\* ========================================================================

\* variant: only the map bounds are checked
canMoveTo_boundsOnly(w, x, y) ==
  ~(x < 0 \/ x >= mapWidth \/ y < 0 \/ y >= mapHeight)

\* variant: the map bounds are not checked
canMoveTo_noBounds(w, x, y) ==
  {i \in getAtPosition(w.m, x, y) : w.E[i].type = "functional" /\ w.E[i].inUse} = {}

\* canMoveTo(x, y)
canMoveTo(w, x, y) ==
  /\ ~(x < 0 \/ x >= mapWidth \/ y < 0 \/ y >= mapHeight)
  /\ {i \in getAtPosition(w.m, x, y) : w.E[i].type = "functional" /\ w.E[i].inUse} = {}

\* moveTo(x, y) on the entity record
moveTo(e, x, y) ==
  IF e.isMoving THEN e
  ELSE [e EXCEPT !.targetTileX = x, !.targetTileY = y, !.isMoving = TRUE]

\* findNearbyNPCs(radius): ids of the 'npc' bucket within the radius, in order
findNearbyNPCs(w, id, radius) ==
  SelectSeq(getByType(w.m, "npc"),
            LAMBDA o : Dist2(w.E[id], w.E[o]) <= radius * radius /\ o # id)

\* variant: the first satisfying available item wins, whatever its distance
RECURSIVE findItemLoop_firstFound(_, _, _, _, _, _)
findItemLoop_firstFound(w, id, needType, i, bestItem, bestD2) ==
  LET allItems == getByType(w.m, "functional")
  IN  IF i > Len(allItems) THEN bestItem
      ELSE IF canSatisfy(w.E[allItems[i]], needType) /\ isAvailable(w.E[allItems[i]])
              /\ bestItem = NULL
           THEN findItemLoop_firstFound(w, id, needType, i + 1, allItems[i], 0)
           ELSE findItemLoop_firstFound(w, id, needType, i + 1, bestItem, bestD2)

\* the loop of findItemForNeed from index i on, carrying bestItem and the
\* squared bestDistance (-1 for Infinity)
RECURSIVE findItemLoop(_, _, _, _, _, _)
findItemLoop(w, id, needType, i, bestItem, bestD2) ==
  LET allItems == getByType(w.m, "functional")
  IN  IF i > Len(allItems) THEN bestItem
      ELSE LET item == allItems[i]
               d2 == Dist2(w.E[id], w.E[item])
           IN  IF canSatisfy(w.E[item], needType) /\ isAvailable(w.E[item])
                  /\ (bestD2 < 0 \/ d2 < bestD2)
               THEN findItemLoop(w, id, needType, i + 1, item, d2)
               ELSE findItemLoop(w, id, needType, i + 1, bestItem, bestD2)

\* findItemForNeed(needType): id of the item, NULL if none
findItemForNeed(w, id, needType) == findItemLoop(w, id, needType, 1, NULL, 0 - 1)

\* variant: the target item is set but the goal is not
goToItem_noGoal(w, id, item, needType) ==
  IF item = NULL \/ ~canMoveTo(w, w.E[item].tileX, w.E[item].tileY) THEN w
  ELSE [w EXCEPT !.E[id] =
          moveTo([@ EXCEPT !.targetItem = item], w.E[item].tileX, w.E[item].tileY)]

\* goToItem(item, needType)
goToItem(w, id, item, needType) ==
  IF item = NULL \/ ~canMoveTo(w, w.E[item].tileX, w.E[item].tileY) THEN w
  ELSE [w EXCEPT !.E[id] =
          moveTo([@ EXCEPT !.currentGoal = [type |-> "satisfy_need", needType |-> needType,
                                           target |-> item],
                           !.targetItem = item],
                 w.E[item].tileX, w.E[item].tileY)]

\* variant: the agent enters Using whatever startUse returns
startUsingItem_ignoresResult(w, id, item, t) ==
  [w EXCEPT !.E[item] = startUse(w.E[item], id).item,
            !.E[id] = [@ EXCEPT !.usingItem = TRUE, !.useStartTime = t, !.isMoving = FALSE]]

\* startUsingItem(item) at Date.now() = t
startUsingItem(w, id, item, t) ==
  LET r == startUse(w.E[item], id)
  IN  IF r.ok
      THEN [w EXCEPT !.E[item] = r.item,
                     !.E[id] = [@ EXCEPT !.usingItem = TRUE, !.useStartTime = t,
                                         !.isMoving = FALSE]]
      ELSE w

\* variant: the loop does not skip the goal's kind
RECURSIVE satisfyOthers_goalToo(_, _, _, _)
satisfyOthers_goalToo(needs, satisfies, goalType, i) ==
  IF i > Len(Kinds) THEN needs
  ELSE IF Kinds[i] \in DOMAIN satisfies
       THEN satisfyOthers_goalToo(satisfyNeed(needs, Kinds[i], satisfies[Kinds[i]]), satisfies,
                                  goalType, i + 1)
       ELSE satisfyOthers_goalToo(needs, satisfies, goalType, i + 1)

\* the loop of completeItemUse over the other kinds of the item's table
RECURSIVE satisfyOthers(_, _, _, _)
satisfyOthers(needs, satisfies, goalType, i) ==
  IF i > Len(Kinds) THEN needs
  ELSE IF Kinds[i] \in DOMAIN satisfies /\ Kinds[i] # goalType
       THEN satisfyOthers(satisfyNeed(needs, Kinds[i], satisfies[Kinds[i]]), satisfies, goalType, i + 1)
       ELSE satisfyOthers(needs, satisfies, goalType, i + 1)

\* variant: the goal's need is also credited to every other agent of the
\* index that is in critical need, as if the help had been delivered
completeItemUse_creditsHelped(w, id) ==
  LET e == w.E[id]
      n1 == IF e.targetItem # NULL /\ e.currentGoal # NullRec
            THEN satisfyOthers(
                   satisfyNeed(e.needs, e.currentGoal.needType,
                               getSatisfactionAmount(w.E[e.targetItem], e.currentGoal.needType)),
                   ItemDefs[w.E[e.targetItem].itemDef].satisfies, e.currentGoal.needType, 1)
            ELSE e.needs
  IN  [w EXCEPT !.E =
         [i \in DOMAIN w.E |->
            IF i = id
            THEN [e EXCEPT !.needs = n1, !.usingItem = FALSE, !.targetItem = NULL,
                           !.currentGoal = NullRec, !.useStartTime = 0]
            ELSE IF w.E[i].type = "npc" /\ isCritical(w.E[i].needs)
                    /\ e.targetItem # NULL /\ e.currentGoal # NullRec
            THEN [w.E[i] EXCEPT !.needs =
                    satisfyNeed(@, e.currentGoal.needType,
                                getSatisfactionAmount(w.E[e.targetItem], e.currentGoal.needType))]
            ELSE w.E[i]]]

\* completeItemUse(); the item is the one targetItem named before updateUse
completeItemUse(w, id) ==
  LET e == w.E[id]
      n1 == IF e.targetItem # NULL /\ e.currentGoal # NullRec
            THEN satisfyOthers(
                   satisfyNeed(e.needs, e.currentGoal.needType,
                               getSatisfactionAmount(w.E[e.targetItem], e.currentGoal.needType)),
                   ItemDefs[w.E[e.targetItem].itemDef].satisfies, e.currentGoal.needType, 1)
            ELSE e.needs
  IN  [w EXCEPT !.E[id] = [@ EXCEPT !.needs = n1, !.usingItem = FALSE, !.targetItem = NULL,
                                    !.currentGoal = NullRec, !.useStartTime = 0]]

\* variant: the value is capped at 100 but has no floor
updateRelationship_noFloor(e, other, change) ==
  LET rel == IF other \in DOMAIN e.relationships THEN e.relationships[other]
             ELSE [value |-> 0, interactions |-> 0]
      new == [value |-> Min2(100, rel.value + change),
              interactions |-> rel.interactions + 1]
  IN  [e EXCEPT !.relationships =
         [o \in DOMAIN e.relationships \cup {other} |->
            IF o = other THEN new ELSE e.relationships[o]]]

\* updateRelationship(other, change) on the entity record
updateRelationship(e, other, change) ==
  LET rel == IF other \in DOMAIN e.relationships THEN e.relationships[other]
             ELSE [value |-> 0, interactions |-> 0]
      new == [value |-> Max2(0 - 100, Min2(100, rel.value + change)),
              interactions |-> rel.interactions + 1]
  IN  [e EXCEPT !.relationships =
         [o \in DOMAIN e.relationships \cup {other} |->
            IF o = other THEN new ELSE e.relationships[o]]]

\* variant: only the initiator records the relationship
performInteraction_oneSided(w, id, other) ==
  LET socialGain == 10 * Pt + (w.E[id].social * 5 * Pt) \div 10
      happinessGain == 5 * Pt + (w.E[id].social * 3 * Pt) \div 10
      a == updateRelationship(w.E[id], other, 5)
      b == w.E[other]
  IN  [w EXCEPT
         !.E[id] = [a EXCEPT !.needs =
            satisfyNeed(satisfyNeed(a.needs, "happiness", happinessGain), "social", socialGain)],
         !.E[other] = [b EXCEPT !.needs =
            satisfyNeed(satisfyNeed(b.needs, "happiness", (happinessGain * 8) \div 10),
                        "social", (socialGain * 8) \div 10)]]

\* variant: the partner receives the initiator's full amounts
performInteraction_fullShare(w, id, other) ==
  LET socialGain == 10 * Pt + (w.E[id].social * 5 * Pt) \div 10
      happinessGain == 5 * Pt + (w.E[id].social * 3 * Pt) \div 10
      a == updateRelationship(w.E[id], other, 5)
      b == updateRelationship(w.E[other], id, 5)
  IN  [w EXCEPT
         !.E[id] = [a EXCEPT !.needs =
            satisfyNeed(satisfyNeed(a.needs, "happiness", happinessGain), "social", socialGain)],
         !.E[other] = [b EXCEPT !.needs =
            satisfyNeed(satisfyNeed(b.needs, "happiness", happinessGain), "social", socialGain)]]

\* performInteraction(otherNPC)
performInteraction(w, id, other) ==
  LET socialGain == 10 * Pt + (w.E[id].social * 5 * Pt) \div 10
      happinessGain == 5 * Pt + (w.E[id].social * 3 * Pt) \div 10
      a == updateRelationship(w.E[id], other, 5)
      b == updateRelationship(w.E[other], id, 5)
  IN  [w EXCEPT
         !.E[id] = [a EXCEPT !.needs =
            satisfyNeed(satisfyNeed(a.needs, "happiness", happinessGain), "social", socialGain)],
         !.E[other] = [b EXCEPT !.needs =
            satisfyNeed(satisfyNeed(b.needs, "happiness", (happinessGain * 8) \div 10),
                        "social", (socialGain * 8) \div 10)]]

\* variant: the step is taken along the axis of the smaller offset
interactWithNPC_wrongAxis(w, id, other) ==
  LET e == w.E[id]
      dx == w.E[other].tileX - e.tileX
      dy == w.E[other].tileY - e.tileY
      abs(v) == IF v < 0 THEN 0 - v ELSE v
      newX == IF abs(dx) < abs(dy) THEN e.tileX + (IF dx > 0 THEN 1 ELSE 0 - 1) ELSE e.tileX
      newY == IF abs(dx) < abs(dy) THEN e.tileY ELSE e.tileY + (IF dy > 0 THEN 1 ELSE 0 - 1)
  IN  IF other = id THEN w
      ELSE IF Dist2(e, w.E[other]) > 1
           THEN IF canMoveTo(w, newX, newY)
                THEN [w EXCEPT !.E[id] = moveTo(@, newX, newY)]
                ELSE w
           ELSE performInteraction(w, id, other)

\* interactWithNPC(otherNPC)
interactWithNPC(w, id, other) ==
  LET e == w.E[id]
      dx == w.E[other].tileX - e.tileX
      dy == w.E[other].tileY - e.tileY
      abs(v) == IF v < 0 THEN 0 - v ELSE v
      newX == IF abs(dx) > abs(dy) THEN e.tileX + (IF dx > 0 THEN 1 ELSE 0 - 1) ELSE e.tileX
      newY == IF abs(dx) > abs(dy) THEN e.tileY ELSE e.tileY + (IF dy > 0 THEN 1 ELSE 0 - 1)
  IN  IF other = id THEN w
      ELSE IF Dist2(e, w.E[other]) > 1
           THEN IF canMoveTo(w, newX, newY)
                THEN [w EXCEPT !.E[id] = moveTo(@, newX, newY)]
                ELSE w
           ELSE performInteraction(w, id, other)

\* variant: only the first direction of the shuffled list is tried
wander_firstTried(w, id) ==
  LET e == w.E[id]
      directions == {<<0, 1>>, <<0 - 1, 0>>, <<1, 0>>, <<0, 0 - 1>>}
  IN  {IF canMoveTo(w, e.tileX + d[1], e.tileY + d[2])
       THEN [w EXCEPT !.E[id] = moveTo(@, e.tileX + d[1], e.tileY + d[2])]
       ELSE w : d \in directions}

\* wander(): the first direction of the shuffled list that passes canMoveTo,
\* i.e. any direction that passes it; stays put if none does
wander(w, id) ==
  LET e == w.E[id]
      directions == {<<0, 1>>, <<0 - 1, 0>>, <<1, 0>>, <<0, 0 - 1>>}
      valid == {d \in directions : canMoveTo(w, e.tileX + d[1], e.tileY + d[2])}
  IN  IF valid = {} THEN {w}
      ELSE {[w EXCEPT !.E[id] = moveTo(@, e.tileX + d[1], e.tileY + d[2])] : d \in valid}

\* trySocialize(): a random nearby agent (radius 2), or wander
trySocialize(w, id) ==
  LET nearbyNPCs == findNearbyNPCs(w, id, 2)
  IN  IF Len(nearbyNPCs) > 0
      THEN {interactWithNPC(w, id, nearbyNPCs[i]) : i \in 1..Len(nearbyNPCs)}
      ELSE wander(w, id)

\* the loop of tryHelpOthers over nearbyNPCs from index i on
RECURSIVE helpLoop(_, _, _, _)
helpLoop(w, id, nearbyNPCs, i) ==
  IF i > Len(nearbyNPCs) THEN [helping |-> FALSE, w |-> w]
  ELSE LET npc == nearbyNPCs[i]
           urgentNeed == getMostUrgentNeed(w.E[npc].needs)
           item == IF urgentNeed # "none" /\ isCritical(w.E[npc].needs)
                   THEN findItemForNeed(w, id, urgentNeed) ELSE NULL
       IN  IF item # NULL /\ isAvailable(w.E[item])
           THEN [helping |-> TRUE, w |-> goToItem(w, id, item, urgentNeed)]
           ELSE helpLoop(w, id, nearbyNPCs, i + 1)

\* tryHelpOthers()
tryHelpOthers(w, id) == helpLoop(w, id, findNearbyNPCs(w, id, 3), 1)

\* makeAutonomousDecision()
makeAutonomousDecision(w, id) ==
  LET h == tryHelpOthers(w, id)
      urgentNeed == getMostUrgentNeed(w.E[id].needs)
      item == findItemForNeed(w, id, urgentNeed)
  IN  IF h.helping THEN {h.w}
      ELSE IF urgentNeed # "none"
           THEN IF item # NULL THEN {goToItem(w, id, item, urgentNeed)} ELSE wander(w, id)
           ELSE trySocialize(w, id) \cup wander(w, id)

\* ---- NPC.update(deltaTime), section by section; t is Date.now()

\* variant: an agent that is using an item does not decay
npcDecay_notWhileUsing(w, id, t, ts, deltaMs) ==
  LET e == w.E[id]
  IN  IF t - e.lastNeedUpdate > 100 /\ ~e.usingItem
      THEN [w EXCEPT !.E[id] =
              [@ EXCEPT !.needs = IF ts # NullRec
                                  THEN decayWithModifiers(e.needs, ts, t - e.lastNeedUpdate)
                                  ELSE updateNeeds(e.needs, deltaMs),
                        !.lastNeedUpdate = t]]
      ELSE w

\* "Update needs with time-based modifiers"
npcDecay(w, id, t, ts, deltaMs) ==
  LET e == w.E[id]
  IN  IF t - e.lastNeedUpdate > 100
      THEN [w EXCEPT !.E[id] =
              [@ EXCEPT !.needs = IF ts # NullRec
                                  THEN decayWithModifiers(e.needs, ts, t - e.lastNeedUpdate)
                                  ELSE updateNeeds(e.needs, deltaMs),
                        !.lastNeedUpdate = t]]
      ELSE w

\* "Update item usage": useDelta = currentTime - useStartTime
npcItemUsage(w, id, t, deltaMs) ==
  LET e == w.E[id]
      r == updateUse(w.E[e.targetItem], t - e.useStartTime)
  IN  IF e.usingItem /\ e.targetItem # NULL
      THEN IF r.done THEN completeItemUse([w EXCEPT !.E[e.targetItem] = r.item], id)
           ELSE [w EXCEPT !.E[e.targetItem] = r.item]
      ELSE w

\* variant: the agent arrives without trying to reserve its target item
npcMovement_noReserve(w, id, t) ==
  LET e == w.E[id]
      dx == e.targetTileX - e.tileX
      dy == e.targetTileY - e.tileY
      arrived == [e EXCEPT !.tileX = e.targetTileX, !.tileY = e.targetTileY,
                           !.moveSteps = 0, !.isMoving = FALSE]
  IN  IF e.isMoving /\ ~e.usingItem
      THEN IF 1600 * (dx * dx + dy * dy) < (e.moveSteps + 1) * (e.moveSteps + 1)
           THEN [w EXCEPT !.E[id] = arrived]
           ELSE [w EXCEPT !.E[id].moveSteps = @ + 1]
      ELSE w

\* "Update movement": the remaining distance 32 * sqrt(d2) - 0.8 * moveSteps
\* is below moveSpeed = 0.8 iff 1600 * d2 < (moveSteps + 1)^2
npcMovement(w, id, t) ==
  LET e == w.E[id]
      dx == e.targetTileX - e.tileX
      dy == e.targetTileY - e.tileY
      arrived == [e EXCEPT !.tileX = e.targetTileX, !.tileY = e.targetTileY,
                           !.moveSteps = 0, !.isMoving = FALSE]
      w1 == [w EXCEPT !.E[id] = arrived]
  IN  IF e.isMoving /\ ~e.usingItem
      THEN IF 1600 * (dx * dx + dy * dy) < (e.moveSteps + 1) * (e.moveSteps + 1)
           THEN IF arrived.targetItem # NULL
                   /\ isAtPosition(arrived, w.E[arrived.targetItem].tileX,
                                   w.E[arrived.targetItem].tileY)
                THEN startUsingItem(w1, id, arrived.targetItem, t)
                ELSE w1
           ELSE [w EXCEPT !.E[id].moveSteps = @ + 1]
      ELSE w

\* variant: an agent that has a goal waits for it
npcDecision_onlyWithoutGoal(w, id, t) ==
  LET e == w.E[id]
  IN  IF t - e.lastAITime > 1000 /\ ~e.isMoving /\ ~e.usingItem /\ e.currentGoal = NullRec
      THEN {[x EXCEPT !.E[id].lastAITime = t] : x \in makeAutonomousDecision(w, id)}
      ELSE {w}

\* variant: the decision runs whenever it is due, whatever the agent is doing
npcDecision_ungated(w, id, t) ==
  LET e == w.E[id]
  IN  IF t - e.lastAITime > 1000
      THEN {[x EXCEPT !.E[id].lastAITime = t] : x \in makeAutonomousDecision(w, id)}
      ELSE {w}

\* "AI decision making": every spawned or loaded agent has aiType 'autonomous'
npcDecision(w, id, t) ==
  LET e == w.E[id]
  IN  IF t - e.lastAITime > 1000 /\ ~e.isMoving /\ ~e.usingItem
      THEN {[x EXCEPT !.E[id].lastAITime = t] : x \in makeAutonomousDecision(w, id)}
      ELSE {w}

\* NPC.update(deltaTime)
npcUpdate(w, id, t, ts, deltaMs) ==
  IF ~w.E[id].active THEN {w}
  ELSE npcDecision(npcMovement(npcItemUsage(npcDecay(w, id, t, ts, deltaMs), id, t, deltaMs),
                               id, t),
                   id, t)

\* entity.update(deltaTime): Item.update only animates
entityUpdate(w, id, t, ts, deltaMs) ==
  IF w.E[id].type = "npc" THEN npcUpdate(w, id, t, ts, deltaMs) ELSE {w}

\* the loop of EntityManager.update over the identity map from index i on;
\* W is the set of worlds reached so far, each with its toRemove list
RECURSIVE updateLoop(_, _, _, _, _, _)
updateLoop(W, order, i, t, ts, deltaMs) ==
  IF i > Len(order) THEN W
  ELSE LET id == order[i]
           visit(w) ==
             IF w.E[id].markedForRemoval
             THEN {[w EXCEPT !.toRemove = Append(@, id)]}
             ELSE IF w.E[id].active
                  THEN {[x EXCEPT !.m = updateEntityPosition(x.m, x.E, id)] :
                          x \in entityUpdate(w, id, t, ts, deltaMs)}
                  ELSE {w}
       IN  updateLoop(UNION {visit(w) : w \in W}, order, i + 1, t, ts, deltaMs)

\* variant: only the first queued entity is removed
removeAll_firstOnly(m, E, ids) ==
  IF ids = <<>> THEN m ELSE remove(m, E, Head(ids))

\* toRemove.forEach(id => this.remove(id))
RECURSIVE removeAll(_, _, _)
removeAll(m, E, ids) ==
  IF ids = <<>> THEN m ELSE removeAll(remove(m, E, Head(ids)), E, Tail(ids))

\* EntityManager.update(deltaTime): the worlds [E, m] it can end in
emUpdate(m, E, t, ts, deltaMs) ==
  {[E |-> w.E, m |-> removeAll(w.m, w.E, w.toRemove)] :
     w \in updateLoop({[E |-> E, m |-> m, toRemove |-> <<>>]}, m.entities, 1, t, ts, deltaMs)}

\* ========================================================================
\* The world specification: the frame loop and the editor's operations
\* ========================================================================

manager ==
  [entities |-> entities, entitiesByType |-> entitiesByType,
   entitiesByPosition |-> entitiesByPosition]

SetManager(m) ==
  /\ entities' = m.entities
  /\ entitiesByType' = m.entitiesByType
  /\ entitiesByPosition' = m.entitiesByPosition

\* no frame in progress
IdlePass ==
  [pc |-> "idle", i |-> 0, order |-> <<>>, toRemove |-> <<>>, marked |-> {},
   step |-> "none", id |-> NULL, prevE |-> <<>>, prevM |-> EntityManager]

NoItem == [type |-> "none"]
NoNeeds == [k \in {} |-> 0]
NoRet == [op |-> "none"]

WorldIdle ==
  /\ now = Epoch /\ frameMs = 0 /\ ticks = 0 /\ timeSystem = TimeSystem
  /\ mapWidth = MapWidth /\ mapHeight = MapHeight
  /\ activityLogger = ActivityLogger(50)
  /\ ents = <<>> /\ entities = <<>>
  /\ entitiesByType = EntityManager.entitiesByType
  /\ entitiesByPosition = EntityManager.entitiesByPosition

Init ==
  /\ now = Epoch
  /\ frameMs \in FrameSet
  /\ ticks = 0
  /\ timeSystem = TimeSystem
  /\ ents = <<>>
  /\ entities = EntityManager.entities
  /\ entitiesByType = EntityManager.entitiesByType
  /\ entitiesByPosition = EntityManager.entitiesByPosition
  /\ mapWidth = MapWidth /\ mapHeight = MapHeight
  /\ activityLogger = ActivityLogger(50)
  /\ pass = IdlePass
  /\ cItem = NoItem /\ cRet = NoRet /\ cNeeds = NoNeeds /\ cOps = 0

\* the editor's handlers run between frames
EditAllowed == ticks < EditWindow \/ ticks % EditEvery = 0

\* MapRenderer.update(deltaTime), one frame of the game loop
Tick ==
  /\ ticks < MaxTicks
  /\ now' = now + frameMs
  /\ ticks' = ticks + 1
  /\ timeSystem' = timeUpdate(timeSystem, frameMs)
  /\ \E w \in emUpdate(manager, ents, now + frameMs, timeUpdate(timeSystem, frameMs), frameMs) :
       /\ ents' = w.E
       /\ SetManager(w.m)
  /\ UNCHANGED <<frameMs, mapWidth, mapHeight, activityLogger, contractVars>>

\* spawnEntity() with selectedEntityType = 'npc': a new agent at the map centre
SpawnNPC ==
  /\ EditAllowed
  /\ Len(ents) < MaxEntities
  /\ LET id == Len(ents) + 1
         E == Append(ents, NPC(mapWidth \div 2, mapHeight \div 2))
     IN  /\ ents' = E
         /\ SetManager(add(manager, E, id))
  /\ UNCHANGED <<now, frameMs, ticks, timeSystem, mapWidth, mapHeight, activityLogger, contractVars>>

\* spawnEntity() with selectedEntityType = 'item': ItemDefinitions.createItem at the centre
SpawnItem ==
  /\ EditAllowed
  /\ Len(ents) < MaxEntities
  /\ \E defKey \in DefKeys :
       LET id == Len(ents) + 1
           E == Append(ents, FunctionalItem(mapWidth \div 2, mapHeight \div 2, defKey))
       IN  /\ ents' = E
           /\ SetManager(add(manager, E, id))
  /\ UNCHANGED <<now, frameMs, ticks, timeSystem, mapWidth, mapHeight, activityLogger, contractVars>>

\* existing.forEach(e => this.entityManager.remove(e.id)) over a bucket
RECURSIVE removeSet(_, _, _)
removeSet(m, E, ids) ==
  IF ids = {} THEN m
  ELSE LET id == CHOOSE i \in ids : \A j \in ids : i <= j
       IN  removeSet(remove(m, E, id), E, ids \ {id})

\* placeFunctionalItem(x, y) with a selected definition
PlaceFunctionalItem ==
  /\ EditAllowed
  /\ Len(ents) < MaxEntities
  /\ \E defKey \in DefKeys, pos \in MapTiles :
       LET id == Len(ents) + 1
           E == Append(ents, FunctionalItem(pos[1], pos[2], defKey))
           m1 == removeSet(manager, ents, getAtPosition(manager, pos[1], pos[2]))
       IN  /\ ents' = E
           /\ SetManager(add(m1, E, id))
  /\ UNCHANGED <<now, frameMs, ticks, timeSystem, mapWidth, mapHeight, activityLogger, contractVars>>

\* clearEntities(): EntityManager.clear()
ClearEntities ==
  /\ EditAllowed
  /\ entities # <<>>
  /\ SetManager(EntityManager)
  /\ UNCHANGED <<now, frameMs, ticks, timeSystem, ents, mapWidth, mapHeight, activityLogger, contractVars>>

Next == Tick \/ SpawnNPC \/ SpawnItem \/ PlaceFunctionalItem \/ ClearEntities

Spec == Init /\ [][Next]_vars

\* ========================================================================
\* Properties of the world specification
\* ========================================================================

Npcs == {i \in DOMAIN ents : ents[i].type = "npc"}
Items == {i \in DOMAIN ents : ents[i].type = "functional"}
Managed == SeqToSet(entities)

\* the agents that are using item i
Occupants(i) == {a \in Npcs : ents[a].usingItem /\ ents[a].targetItem = i}

\* C1: every functional item has at most one agent with usingItem = true and
\* that item as targetItem, and for such an agent the item is in use with
\* usedBy equal to the agent's id.
C1_AtMostOneOccupant ==
  \A i \in Items :
    /\ Cardinality(Occupants(i)) <= 1
    /\ \A a \in Occupants(i) : ents[i].inUse /\ ents[i].usedBy = a

\* C1 witness: an agent uses an item while a second agent that targeted the
\* same item has arrived on its tile and was refused.
C1_Contended ==
  \E i \in Items, a \in Npcs, b \in Npcs :
    /\ a # b
    /\ a \in Occupants(i)
    /\ ents[b].targetItem = i /\ ~ents[b].usingItem /\ ~ents[b].isMoving
    /\ isAtPosition(ents[b], ents[i].tileX, ents[i].tileY)

\* C3: in a frame in which an agent that is using an item is updated, the use
\* completes if and only if the time elapsed since the reservation has
\* reached the item's maxUseTime.
C3_CompletesAtMaxUseTime ==
  [][\A a \in Npcs :
       (/\ ticks' = ticks + 1
        /\ a \in Managed /\ ents[a].active
        /\ ents[a].usingItem /\ ents[a].targetItem # NULL)
       => (~ents'[a].usingItem
             <=> now' - ents[a].useStartTime >= ents[ents[a].targetItem].maxUseTime)]_vars

\* C5: every need value of every agent is within [0, max].
C5_NeedsInRange ==
  \A a \in Npcs : \A k \in KindSet :
    0 <= ents[a].needs[k].value /\ ents[a].needs[k].value <= ents[a].needs[k].max

\* C6: every need's priority equals 1 - value / max.
C6_PriorityDerived ==
  \A a \in Npcs : \A k \in KindSet :
    ents[a].needs[k].priority = ents[a].needs[k].max - ents[a].needs[k].value

\* C9: every entity of the identity map is in exactly the position bucket of
\* its current tile and in exactly the type bucket of its type.
C9_OneBucketPerEntity ==
  \A id \in Managed :
    /\ \A p \in Tiles :
         id \in entitiesByPosition[p] <=> p = <<ents[id].tileX, ents[id].tileY>>
    /\ \A t \in DOMAIN entitiesByType :
         id \in SeqToSet(entitiesByType[t]) <=> t = ents[id].type

\* C10: an entity that is not in the identity map (it was removed) is in no
\* type bucket and in no position bucket.
C10_RemovedIsGone ==
  \A id \in DOMAIN ents \ Managed :
    /\ \A p \in Tiles : id \notin entitiesByPosition[p]
    /\ \A t \in DOMAIN entitiesByType : id \notin SeqToSet(entitiesByType[t])

\* ========================================================================
\* ItemSpec: the item contract driven by arbitrary callers
\* ========================================================================

\* ids of the callers of startUse
OccupantIds == {1, 2}
\* deltaTime arguments of updateUse, in ms
UseDeltas == {300, 700, 1000}

\* the operation recorded in r released the item from a use: a stopUse during
\* the use, or an updateUse that reported completion
Released(r) ==
  \/ r.op = "stopUse" /\ r.before.inUse
  \/ r.op = "updateUse" /\ r.result

ItemInit ==
  /\ WorldIdle
  /\ cItem \in {FunctionalItem(0, 0, d) : d \in DefKeys}
  /\ cRet = [op |-> "new"]
  /\ pass = IdlePass
  /\ cNeeds = NoNeeds
  /\ cOps = 0

\* item.startUse(id)
IStartUse ==
  /\ cOps < MaxItemOps
  /\ \E id \in OccupantIds :
       LET r == startUse(cItem, id)
       IN  /\ cItem' = r.item
           /\ cRet' = [op |-> "startUse", arg |-> id, result |-> r.ok, before |-> cItem,
                       afterRelease |-> Released(cRet)]
  /\ cOps' = cOps + 1
  /\ UNCHANGED <<worldVars, pass, cNeeds>>

\* item.updateUse(deltaTime)
IUpdateUse ==
  /\ cOps < MaxItemOps
  /\ \E d \in UseDeltas :
       LET r == updateUse(cItem, d)
       IN  /\ cItem' = r.item
           /\ cRet' = [op |-> "updateUse", arg |-> d, result |-> r.done, before |-> cItem,
                       afterRelease |-> Released(cRet)]
  /\ cOps' = cOps + 1
  /\ UNCHANGED <<worldVars, pass, cNeeds>>

\* item.stopUse()
IStopUse ==
  /\ cOps < MaxItemOps
  /\ cItem' = stopUse(cItem)
  /\ cRet' = [op |-> "stopUse", arg |-> NULL, result |-> TRUE, before |-> cItem,
              afterRelease |-> Released(cRet)]
  /\ cOps' = cOps + 1
  /\ UNCHANGED <<worldVars, pass, cNeeds>>

ItemNext == IStartUse \/ IUpdateUse \/ IStopUse

ItemSpec == ItemInit /\ [][ItemNext]_vars

\* C2: startUse(id) on an item in use returns false and leaves the item
\* (inUse, usedBy, useTime) as it was; on an available item it returns true
\* and the item is in use by id with useTime 0.
C2_StartUse ==
  cRet.op = "startUse" =>
    IF cRet.before.inUse
    THEN ~cRet.result /\ cItem = cRet.before
    ELSE cRet.result /\ cItem.inUse /\ cItem.usedBy = cRet.arg /\ cItem.useTime = 0

\* C2 witness: a second caller was refused while the first is part-way
\* through its use.
C2_Refused ==
  /\ cRet.op = "startUse" /\ ~cRet.result
  /\ cItem.inUse /\ cItem.usedBy # cRet.arg /\ cItem.useTime > 0

\* C4: after a stopUse() during a use, or an updateUse that reports completion,
\* the item is available with no occupant and no elapsed time, and a startUse
\* that follows succeeds for whichever caller makes it.
C4_ReleasedIsAvailable ==
  /\ (cRet.op # "new" /\ Released(cRet))
       => isAvailable(cItem) /\ cItem.usedBy = NULL /\ cItem.useTime = 0
  /\ (cRet.op = "startUse" /\ cRet.afterRelease)
       => cRet.result /\ cItem.inUse /\ cItem.usedBy = cRet.arg /\ cItem.useTime = 0

\* C4 witness: a startUse succeeded right after the item was released from a
\* use of another occupant.
C4_ReusedAfterRelease ==
  /\ cRet.op = "startUse" /\ cRet.afterRelease /\ cRet.result
  /\ cRet.before.usedBy = NULL /\ cItem.usedBy = cRet.arg

\* ========================================================================
\* NeedsSpec: one needs object under decay and satisfaction
\* ========================================================================

\* elapsed times of a decay, in ms
DecayDeltas == {0, 60000, 250000}
\* (needType, amount) arguments of satisfyNeed: the entries of the item tables,
\* which are what completeItemUse passes
SatisfyInputs ==
  UNION {{<<k, ItemDefs[d].satisfies[k]>> : k \in DOMAIN ItemDefs[d].satisfies} : d \in DefKeys}
\* the clock by day and by night
Clocks == {TimeSystem, [TimeSystem EXCEPT !.currentTime = 22 * 60 * 1000]}

NeedsInit ==
  /\ WorldIdle
  /\ cItem = NoItem
  /\ pass = IdlePass
  /\ cNeeds = initializeNeeds
  /\ cRet = [op |-> "initializeNeeds"]
  /\ cOps = 0

\* needsSystem.updateNeeds(needs, deltaTime)
NUpdateNeeds ==
  /\ cOps < MaxNeedOps
  /\ \E d \in DecayDeltas :
       /\ cNeeds' = updateNeeds(cNeeds, d)
       /\ cRet' = [op |-> "updateNeeds", arg |-> d, before |-> cNeeds]
  /\ cOps' = cOps + 1
  /\ UNCHANGED <<worldVars, pass, cItem>>

\* the decay of NPC.update; it runs when more than 100 ms have elapsed
NDecay ==
  /\ cOps < MaxNeedOps
  /\ \E d \in {x \in DecayDeltas : x > 100}, ts \in Clocks :
       /\ cNeeds' = decayWithModifiers(cNeeds, ts, d)
       /\ cRet' = [op |-> "decay", arg |-> d, before |-> cNeeds]
  /\ cOps' = cOps + 1
  /\ UNCHANGED <<worldVars, pass, cItem>>

\* needsSystem.satisfyNeed(needs, needType, amount)
NSatisfy ==
  /\ cOps < MaxNeedOps
  /\ \E in \in SatisfyInputs :
       /\ cNeeds' = satisfyNeed(cNeeds, in[1], in[2])
       /\ cRet' = [op |-> "satisfyNeed", arg |-> in, before |-> cNeeds]
  /\ cOps' = cOps + 1
  /\ UNCHANGED <<worldVars, pass, cItem>>

NeedsNext == NUpdateNeeds \/ NDecay \/ NSatisfy

NeedsSpec == NeedsInit /\ [][NeedsNext]_vars

\* C7: a decay step leaves every value at most its previous value and at
\* least 0, and with zero elapsed time leaves every value unchanged.
C7_DecayMonotone ==
  cRet.op \in {"updateNeeds", "decay"} =>
    \A k \in KindSet :
      /\ cNeeds[k].value <= cRet.before[k].value
      /\ cNeeds[k].value >= 0
      /\ cRet.arg = 0 => cNeeds[k].value = cRet.before[k].value

\* the kinds that precede k in the fixed order
Before(k) == {Kinds[j] : j \in {j \in 1..Len(Kinds) : \E i \in 1..Len(Kinds) : Kinds[i] = k /\ j < i}}

\* C8: getMostUrgentNeed returns none when every priority is <= 0.3; otherwise
\* it returns a kind of maximal priority, the first such kind in the order
\* hunger, thirst, sleep, happiness, social.
C8_MostUrgent ==
  LET r == getMostUrgentNeed(cNeeds)
      low(k) == 10 * cNeeds[k].priority <= 3 * cNeeds[k].max
  IN  IF \A k \in KindSet : low(k)
      THEN r = "none"
      ELSE /\ r \in KindSet
           /\ \A k \in KindSet : cNeeds[k].priority <= cNeeds[r].priority
           /\ \A k \in Before(r) : cNeeds[k].priority < cNeeds[r].priority

\* C8 witness: two kinds tie for the highest priority, above the threshold, and
\* the earlier of them, which is not the first kind of the order, is returned.
C8_TieBroken ==
  /\ getMostUrgentNeed(cNeeds) = "thirst"
  /\ cNeeds["sleep"].priority = cNeeds["thirst"].priority
  /\ cNeeds["hunger"].priority < cNeeds["thirst"].priority

\* ========================================================================
\* StepSpec: the frame loop taken one section at a time.  A frame is
\* MapRenderer.update: the clock, then EntityManager.update visiting the
\* entities in order; the visit of an agent runs the sections of NPC.update
\* (decay, item usage, movement, decision) and then updateEntityPosition.
\* pass holds the position inside the frame, the name of the last step, the
\* entity it visited and the world before it.
\* ========================================================================

\* entities created in one session
StepEntities == 4
\* frames run in one session
StepFrames == 6
\* the editor acts before each of the first StepEditWindow frames
StepEditWindow == 1
\* entity.remove() is called before each of the first MarkWindow frames, on at
\* most MaxMarked entities
MarkWindow == 2
MaxMarked == 2
\* duration of a frame, in ms
StepFrameMs == 400
\* definitions the editor places with placeFunctionalItem
PlaceKeys == {"apple"}

world == [E |-> ents, m |-> manager]

SetWorld(w) ==
  /\ ents' = w.E
  /\ SetManager(w.m)

\* pass after a step `name` on entity id
Stepped(name, id) ==
  [pass EXCEPT !.step = name, !.id = id, !.prevE = ents, !.prevM = manager]

\* the entity being visited
cur == pass.order[pass.i]

StepInit ==
  /\ now = Epoch /\ frameMs = StepFrameMs /\ ticks = 0 /\ timeSystem = TimeSystem
  /\ mapWidth = StepWidth /\ mapHeight = StepHeight
  /\ activityLogger = ActivityLogger(50)
  /\ ents = <<>>
  /\ entities = EntityManager.entities
  /\ entitiesByType = EntityManager.entitiesByType
  /\ entitiesByPosition = EntityManager.entitiesByPosition
  /\ pass = IdlePass
  /\ cItem = NoItem /\ cRet = NoRet /\ cNeeds = NoNeeds /\ cOps = 0

EditorIdle == pass.pc = "idle" /\ ticks < StepEditWindow

\* spawnEntity() with selectedEntityType = 'npc'
SSpawnNPC ==
  /\ EditorIdle /\ Len(ents) < StepEntities
  /\ LET id == Len(ents) + 1
         E == Append(ents, NPC(mapWidth \div 2, mapHeight \div 2))
     IN  SetWorld([E |-> E, m |-> add(manager, E, id)])
  /\ pass' = Stepped("edit", NULL)
  /\ UNCHANGED <<now, frameMs, ticks, timeSystem, mapWidth, mapHeight, activityLogger, cItem, cRet, cNeeds, cOps>>

\* spawnEntity() with selectedEntityType = 'item'
SSpawnItem ==
  /\ EditorIdle /\ Len(ents) < StepEntities
  /\ \E defKey \in DefKeys :
       LET id == Len(ents) + 1
           E == Append(ents, FunctionalItem(mapWidth \div 2, mapHeight \div 2, defKey))
       IN  SetWorld([E |-> E, m |-> add(manager, E, id)])
  /\ pass' = Stepped("edit", NULL)
  /\ UNCHANGED <<now, frameMs, ticks, timeSystem, mapWidth, mapHeight, activityLogger, cItem, cRet, cNeeds, cOps>>

\* placeFunctionalItem(x, y) with a selected definition
SPlace ==
  /\ EditorIdle /\ Len(ents) < StepEntities
  /\ \E defKey \in PlaceKeys, pos \in MapTiles :
       LET id == Len(ents) + 1
           E == Append(ents, FunctionalItem(pos[1], pos[2], defKey))
           m1 == removeSet(manager, ents, getAtPosition(manager, pos[1], pos[2]))
       IN  SetWorld([E |-> E, m |-> add(m1, E, id)])
  /\ pass' = Stepped("edit", NULL)
  /\ UNCHANGED <<now, frameMs, ticks, timeSystem, mapWidth, mapHeight, activityLogger, cItem, cRet, cNeeds, cOps>>

\* entity.remove(): mark for removal
SMark ==
  /\ pass.pc = "idle" /\ ticks < MarkWindow
  /\ Cardinality({id \in DOMAIN ents : ents[id].markedForRemoval}) < MaxMarked
  /\ \E id \in Managed :
       /\ ~ents[id].markedForRemoval
       /\ ents' = [ents EXCEPT ![id].markedForRemoval = TRUE, ![id].active = FALSE]
  /\ pass' = Stepped("mark", NULL)
  /\ UNCHANGED <<now, frameMs, ticks, timeSystem, entities, entitiesByType, entitiesByPosition,
                 mapWidth, mapHeight, activityLogger, cItem, cRet, cNeeds, cOps>>

\* MapRenderer.update(deltaTime): the clock, and the start of EntityManager.update
SBegin ==
  /\ pass.pc = "idle" /\ ticks < StepFrames
  /\ now' = now + frameMs
  /\ timeSystem' = timeUpdate(timeSystem, frameMs)
  /\ pass' = [Stepped("begin", NULL) EXCEPT
                !.pc = "visit", !.i = 1, !.order = entities, !.toRemove = <<>>,
                !.marked = {id \in Managed : ents[id].markedForRemoval}]
  /\ UNCHANGED <<frameMs, ticks, ents, entities, entitiesByType, entitiesByPosition,
                 mapWidth, mapHeight, activityLogger, cItem, cRet, cNeeds, cOps>>

\* one iteration of the loop of EntityManager.update, up to the end of the
\* first section of NPC.update
SVisit ==
  /\ pass.pc = "visit" /\ pass.i <= Len(pass.order)
  /\ IF ents[cur].markedForRemoval
     THEN /\ pass' = [Stepped("queue", cur) EXCEPT !.toRemove = Append(@, cur), !.i = @ + 1]
          /\ UNCHANGED <<ents, entities, entitiesByType, entitiesByPosition>>
     ELSE IF ents[cur].active
          THEN IF ents[cur].type = "npc"
               THEN /\ SetWorld(npcDecay(world, cur, now, timeSystem, frameMs))
                    /\ pass' = [Stepped("decay", cur) EXCEPT !.pc = "usage"]
               ELSE /\ SetWorld([world EXCEPT !.m = updateEntityPosition(manager, ents, cur)])
                    /\ pass' = [Stepped("item", cur) EXCEPT !.i = @ + 1]
          ELSE /\ pass' = [Stepped("skip", cur) EXCEPT !.i = @ + 1]
               /\ UNCHANGED <<ents, entities, entitiesByType, entitiesByPosition>>
  /\ UNCHANGED <<now, frameMs, ticks, timeSystem, mapWidth, mapHeight, activityLogger, cItem, cRet, cNeeds, cOps>>

\* NPC.update, "Update item usage"
SUsage ==
  /\ pass.pc = "usage"
  /\ SetWorld(npcItemUsage(world, cur, now, frameMs))
  /\ pass' = [Stepped("usage", cur) EXCEPT !.pc = "move"]
  /\ UNCHANGED <<now, frameMs, ticks, timeSystem, mapWidth, mapHeight, activityLogger, cItem, cRet, cNeeds, cOps>>

\* NPC.update, "Update movement"
SMove ==
  /\ pass.pc = "move"
  /\ SetWorld(npcMovement(world, cur, now))
  /\ pass' = [Stepped("move", cur) EXCEPT !.pc = "decide"]
  /\ UNCHANGED <<now, frameMs, ticks, timeSystem, mapWidth, mapHeight, activityLogger, cItem, cRet, cNeeds, cOps>>

\* NPC.update, "AI decision making"
SDecide ==
  /\ pass.pc = "decide"
  /\ \E w \in npcDecision(world, cur, now) : SetWorld(w)
  /\ pass' = [Stepped("decide", cur) EXCEPT !.pc = "reindex"]
  /\ UNCHANGED <<now, frameMs, ticks, timeSystem, mapWidth, mapHeight, activityLogger, cItem, cRet, cNeeds, cOps>>

\* this.updateEntityPosition(entity) after entity.update
SReindex ==
  /\ pass.pc = "reindex"
  /\ SetWorld([world EXCEPT !.m = updateEntityPosition(manager, ents, cur)])
  /\ pass' = [Stepped("reindex", cur) EXCEPT !.pc = "visit", !.i = @ + 1]
  /\ UNCHANGED <<now, frameMs, ticks, timeSystem, mapWidth, mapHeight, activityLogger, cItem, cRet, cNeeds, cOps>>

\* toRemove.forEach(id => this.remove(id)): the end of the frame
SRemove ==
  /\ pass.pc = "visit" /\ pass.i > Len(pass.order)
  /\ SetManager(removeAll(manager, ents, pass.toRemove))
  /\ ticks' = ticks + 1
  /\ pass' = [Stepped("remove", NULL) EXCEPT !.pc = "idle"]
  /\ UNCHANGED <<now, frameMs, timeSystem, ents, mapWidth, mapHeight, activityLogger, cItem, cRet, cNeeds, cOps>>

StepNext ==
  \/ SSpawnNPC \/ SSpawnItem \/ SPlace \/ SMark
  \/ SBegin \/ SVisit \/ SUsage \/ SMove \/ SDecide \/ SReindex \/ SRemove

StepSpec == StepInit /\ [][StepNext]_vars

\* the index of id in the order of the pass (0 if absent)
OrderIndex(id) ==
  IF id \in SeqToSet(pass.order)
  THEN CHOOSE j \in 1..Len(pass.order) : pass.order[j] = id ELSE 0

\* the fields of an agent that its own update writes on every visit
OwnClock(e) == <<e.lastNeedUpdate, e.lastAITime>>

\* C11: during one EntityManager.update pass an entity marked for removal is
\* never updated, no entity leaves the index before every entity has been
\* visited, and when the pass ends no entity that was marked before the pass
\* started is in the identity map or in a type bucket.
C11_DeferredRemoval ==
  /\ pass.step \in {"decay", "usage", "move", "decide", "reindex", "item"}
       => ~pass.prevE[pass.id].markedForRemoval
  /\ pass.pc # "idle"
       => \A id \in pass.marked :
            ents[id].type = "npc" => OwnClock(ents[id]) = OwnClock(pass.prevE[id])
  /\ pass.pc # "idle"
       => /\ entities = pass.order
          /\ \A id \in SeqToSet(pass.order) : id \in SeqToSet(entitiesByType[ents[id].type])
  /\ pass.step = "remove"
       => \A id \in pass.marked :
            /\ id \notin Managed
            /\ \A t \in DOMAIN entitiesByType : id \notin SeqToSet(entitiesByType[t])

\* C11 witness: a pass has ended that queued two marked entities, one of them
\* an agent, and updated an agent that comes after them in the order.
C11_MarkedRemoved ==
  /\ pass.step = "remove"
  /\ \E id \in pass.marked, jd \in pass.marked, other \in Npcs \cap Managed :
       /\ id # jd /\ ents[id].type = "npc"
       /\ OrderIndex(id) < OrderIndex(other) /\ OrderIndex(jd) < OrderIndex(other)
       /\ ents[other].lastNeedUpdate = now

\* the last step was the movement section of agent a, in which a arrived on
\* the tile of its target item while that item was in use
ArrivedAtBusyItem(a) ==
  /\ pass.step = "move" /\ pass.id = a
  /\ pass.prevE[a].isMoving /\ ~pass.prevE[a].usingItem /\ ~ents[a].isMoving
  /\ pass.prevE[a].targetItem # NULL
  /\ isAtPosition(ents[a], ents[pass.prevE[a].targetItem].tileX, ents[pass.prevE[a].targetItem].tileY)
  /\ pass.prevE[pass.prevE[a].targetItem].inUse

\* C12: an agent that arrives at its goal item and finds it in use does not
\* enter Using and abandons the goal: currentGoal and targetItem are cleared.
C12_AbandonsGoal ==
  \A a \in Npcs :
    ArrivedAtBusyItem(a)
      => /\ ~ents[a].usingItem
         /\ ents[a].currentGoal = NullRec
         /\ ents[a].targetItem = NULL

\* the agents that existed before the last step
PrevNpcs == {a \in Npcs : a \in DOMAIN pass.prevE}

\* hunger and thirst rise only through item tables (every table of DefKeys
\* lists one of them); the last step raised one of them for agent a
CreditedByItem(a) ==
  /\ a \in PrevNpcs
  /\ \E k \in {"hunger", "thirst"} : ents[a].needs[k].value > pass.prevE[a].needs[k].value

\* C13: an agent is credited by an item only in the completion of a use that
\* it reserved itself (the item was in use by that agent, and the step releases
\* it); a release and a reservation each involve exactly one agent, the one
\* named by usedBy; an agent stops Using only through such a completion; and
\* at the end of a frame no updated agent is still Using after maxUseTime.
C13_CreditFollowsOwnReservation ==
  /\ \A a \in Npcs :
       CreditedByItem(a)
         => /\ pass.step = "usage" /\ pass.id = a
            /\ pass.prevE[a].usingItem /\ pass.prevE[a].targetItem # NULL
            /\ pass.prevE[pass.prevE[a].targetItem].inUse
            /\ pass.prevE[pass.prevE[a].targetItem].usedBy = a
            /\ ~ents[a].usingItem
            /\ ~ents[pass.prevE[a].targetItem].inUse
            /\ \A b \in PrevNpcs \ {a} : ents[b] = pass.prevE[b]
  /\ \A a \in PrevNpcs :
       (pass.prevE[a].usingItem /\ ~ents[a].usingItem)
         => /\ pass.step = "usage" /\ pass.id = a
            /\ pass.prevE[pass.prevE[a].targetItem].usedBy = a
            /\ ~ents[pass.prevE[a].targetItem].inUse
  /\ \A i \in Items :
       (i \in DOMAIN pass.prevE /\ pass.prevE[i].inUse # ents[i].inUse)
         => IF ents[i].inUse
            THEN /\ pass.step = "move" /\ ents[i].usedBy = pass.id
                 /\ ents[pass.id].usingItem /\ ents[pass.id].targetItem = i
                 /\ ~pass.prevE[pass.id].usingItem
            ELSE /\ pass.step = "usage" /\ pass.prevE[i].usedBy = pass.id
                 /\ pass.prevE[pass.id].usingItem /\ ~ents[pass.id].usingItem
  /\ pass.pc = "idle"
       => \A a \in Npcs \cap Managed :
            (ents[a].active /\ ents[a].usingItem)
              => now - ents[a].useStartTime < ents[ents[a].targetItem].maxUseTime

\* C13 witness: the use of one agent has just completed and credited it, while
\* a second agent that holds the same item as target and was refused on
\* arrival is unchanged with hunger and thirst still at 0.
C13_OnlyOccupantCredited ==
  /\ pass.step = "usage"
  /\ CreditedByItem(pass.id)
  /\ \E b \in PrevNpcs \ {pass.id} :
       /\ ents[b].targetItem = pass.prevE[pass.id].targetItem
       /\ ~ents[b].usingItem /\ ~ents[b].isMoving
       /\ ents[b].needs["hunger"].value = 0 /\ ents[b].needs["thirst"].value = 0

\* ========================================================================
\* CreditSpec: one agent in the middle of a use, with any needs, frame by
\* frame until the use completes
\* ========================================================================

\* frames run
CreditFrames == 6
\* need values at the reservation, in points
CreditValues == {0, 15, 95}
\* definitions of the item in use
CreditKeys == {"apple", "meal", "coffee"}

\* needs with the given values, priorities as the last decay left them
needsAt(v) ==
  [k \in KindSet |-> [value |-> v[k] * Pt, max |-> needTypes[k].max,
                      priority |-> needTypes[k].max - v[k] * Pt]]

\* agent 1 has reserved item 2 on its own tile for goal kind g at time Epoch
CreditInit ==
  /\ now = Epoch /\ frameMs = StepFrameMs /\ ticks = 0 /\ timeSystem = TimeSystem
  /\ mapWidth = StepWidth /\ mapHeight = StepHeight
  /\ activityLogger = ActivityLogger(50)
  /\ \E d \in CreditKeys, v \in [KindSet -> CreditValues] :
     \E g \in {k \in DOMAIN ItemDefs[d].satisfies : ItemDefs[d].satisfies[k] > 0} :
       LET agent == [NPC(0, 0) EXCEPT !.needs = needsAt(v), !.lastNeedUpdate = Epoch,
                                      !.lastAITime = Epoch]
           E0 == <<agent, FunctionalItem(0, 0, d)>>
           w0 == [E |-> E0, m |-> add(add(EntityManager, E0, 1), E0, 2)]
           w1 == startUsingItem(goToItem(w0, 1, 2, g), 1, 2, Epoch)
       IN  /\ ents = w1.E
           /\ entities = w1.m.entities
           /\ entitiesByType = w1.m.entitiesByType
           /\ entitiesByPosition = w1.m.entitiesByPosition
  /\ pass = IdlePass
  /\ cItem = NoItem /\ cRet = NoRet /\ cNeeds = NoNeeds /\ cOps = 0

\* the start of a frame and the decay section of the agent's update
CDecay ==
  /\ pass.pc = "idle" /\ ticks < CreditFrames /\ ents[1].usingItem
  /\ now' = now + frameMs
  /\ timeSystem' = timeUpdate(timeSystem, frameMs)
  /\ SetWorld(npcDecay(world, 1, now + frameMs, timeUpdate(timeSystem, frameMs), frameMs))
  /\ pass' = [Stepped("decay", 1) EXCEPT !.pc = "usage"]
  /\ UNCHANGED <<frameMs, ticks, mapWidth, mapHeight, activityLogger, cItem, cRet, cNeeds, cOps>>

\* the item-usage section of the agent's update
CUse ==
  /\ pass.pc = "usage"
  /\ SetWorld(npcItemUsage(world, 1, now, frameMs))
  /\ ticks' = ticks + 1
  /\ pass' = [Stepped("usage", 1) EXCEPT !.pc = "idle"]
  /\ UNCHANGED <<now, frameMs, timeSystem, mapWidth, mapHeight, activityLogger, cItem, cRet, cNeeds, cOps>>

CreditNext == CDecay \/ CUse

CreditSpec == CreditInit /\ [][CreditNext]_vars

\* the last step was the item-usage section of agent a and completed its use
Completed(a) ==
  /\ pass.step = "usage" /\ pass.id = a
  /\ pass.prevE[a].usingItem /\ ~ents[a].usingItem

\* C14: when an agent's use completes, every kind of the item's table -- the
\* goal's kind, once, and every other kind -- changes by its listed amount,
\* capped at max, the other kinds are untouched, the agent's goal, target item
\* and Using flag are cleared and the item is Available.
C14_CompletionCredits ==
  \A a \in Npcs :
    Completed(a) =>
      LET i == pass.prevE[a].targetItem
          g == pass.prevE[a].currentGoal.needType
          tab == ItemDefs[ents[i].itemDef].satisfies
          old == pass.prevE[a].needs
      IN  /\ g \in DOMAIN tab /\ tab[g] > 0
          /\ \A k \in KindSet :
               ents[a].needs[k].value =
                 IF k \in DOMAIN tab THEN Min2(old[k].max, old[k].value + tab[k])
                 ELSE old[k].value
          /\ ents[a].currentGoal = NullRec /\ ents[a].targetItem = NULL
          /\ isAvailable(ents[i]) /\ ents[i].usedBy = NULL /\ ents[i].useTime = 0

\* C14 witness: a use of a Meal for hunger has completed for an agent that
\* reserved it with hunger 15 and happiness 95: hunger has risen by 60 from what
\* the decay during the use left of the 15, and happiness is capped at 100.
C14_MealCredited ==
  /\ Completed(1)
  /\ ents[2].itemDef = "meal"
  /\ pass.prevE[1].needs["hunger"].value > 10 * Pt
  /\ pass.prevE[1].needs["hunger"].value <= 15 * Pt
  /\ ents[1].needs["hunger"].value = pass.prevE[1].needs["hunger"].value + 60 * Pt
  /\ pass.prevE[1].needs["happiness"].value > 90 * Pt
  /\ ents[1].needs["happiness"].value = 100 * Pt

\* ------------------------------------------------------------- decisions
\* the world in which the last step ran
prevWorld == [E |-> pass.prevE, m |-> pass.prevM]

\* the last step was the decision section of agent a, and a decision ran
Decided(a) ==
  /\ pass.step = "decide" /\ pass.id = a
  /\ ents[a].lastAITime # pass.prevE[a].lastAITime

\* the items of the index that can satisfy needType and are available, in w
Candidates(w, needType) ==
  {i \in SeqToSet(getByType(w.m, "functional")) :
     canSatisfy(w.E[i], needType) /\ isAvailable(w.E[i])}

\* the (agent, item) pairs that call for help from a in w: another agent of
\* the index within tile distance 3 with a critical need and a most urgent
\* need, and an available item that satisfies that need
HelpCalls(w, a) ==
  {<<b, i>> \in SeqToSet(getByType(w.m, "npc")) \X SeqToSet(getByType(w.m, "functional")) :
     /\ b # a
     /\ Dist2(w.E[a], w.E[b]) <= 9
     /\ \E k \in KindSet : 5 * w.E[b].needs[k].value < w.E[b].needs[k].max
     /\ getMostUrgentNeed(w.E[b].needs) # "none"
     /\ i \in Candidates(w, getMostUrgentNeed(w.E[b].needs))}

\* C15: in a decision of agent a, if another agent within tile distance 3 has
\* a critical need and an available item satisfies that agent's most urgent
\* need, a takes such an item as its own goal, for that need, and moves to it.
C15_HelpsFirst ==
  \A a \in Npcs :
    (Decided(a) /\ HelpCalls(prevWorld, a) # {})
      => \E c \in HelpCalls(prevWorld, a) :
           /\ ents[a].targetItem = c[2]
           /\ ents[a].currentGoal =
                [type |-> "satisfy_need",
                 needType |-> getMostUrgentNeed(pass.prevE[c[1]].needs), target |-> c[2]]
           /\ ents[a].isMoving
           /\ ents[a].targetTileX = ents[c[2]].tileX /\ ents[a].targetTileY = ents[c[2]].tileY

\* the position of item i in the iteration order of the functional bucket of w
BucketIndex(w, i) ==
  CHOOSE j \in 1..Len(getByType(w.m, "functional")) : getByType(w.m, "functional")[j] = i

\* the candidates for needType than which none is strictly nearer to a, and
\* none equally near comes earlier in the bucket
Nearest(w, a, needType) ==
  {i \in Candidates(w, needType) :
     \A j \in Candidates(w, needType) :
       /\ Dist2(w.E[a], w.E[i]) <= Dist2(w.E[a], w.E[j])
       /\ Dist2(w.E[a], w.E[i]) = Dist2(w.E[a], w.E[j]) => BucketIndex(w, i) <= BucketIndex(w, j)}

\* agent record e after a move to (x, y) was started and the decision stamped at t
Leaving(e, x, y, t) ==
  [e EXCEPT !.targetTileX = x, !.targetTileY = y, !.isMoving = TRUE, !.lastAITime = t]

\* the last step left agent a as it was, apart from the time of the decision
OnlyStamped(a) ==
  ents[a] = [pass.prevE[a] EXCEPT !.lastAITime = now]

\* the last step was a wander of agent a: a move to one of the four
\* neighbouring tiles that canMoveTo accepted, or nothing if it accepted none
Wandered(a) ==
  LET e == pass.prevE[a]
      nbrs == {<<e.tileX, e.tileY + 1>>, <<e.tileX - 1, e.tileY>>,
               <<e.tileX + 1, e.tileY>>, <<e.tileX, e.tileY - 1>>}
      open == {t \in nbrs : canMoveTo(prevWorld, t[1], t[2])}
  IN  IF open = {} THEN OnlyStamped(a)
      ELSE \E t \in open : ents[a] = Leaving(e, t[1], t[2], now)

\* C16: in a decision in which cooperation does not trigger and the agent has
\* a most urgent need, the item set as goal satisfies that need, is available,
\* and is the nearest such item of the index, the first in the functional
\* bucket among the equally near; if there is no such item the goal is left
\* as it was and the agent wanders.
C16_NearestAvailableItem ==
  \A a \in Npcs :
    (/\ Decided(a)
     /\ HelpCalls(prevWorld, a) = {}
     /\ getMostUrgentNeed(pass.prevE[a].needs) # "none")
      => LET u == getMostUrgentNeed(pass.prevE[a].needs)
             best == Nearest(prevWorld, a, u)
         IN  IF best = {} THEN Wandered(a)
             ELSE \E i \in best :
                    \/ ents[a] = Leaving([pass.prevE[a] EXCEPT
                                            !.currentGoal = [type |-> "satisfy_need",
                                                             needType |-> u, target |-> i],
                                            !.targetItem = i],
                                         ents[i].tileX, ents[i].tileY, now)
                    \/ /\ ~canMoveTo(prevWorld, ents[i].tileX, ents[i].tileY)
                       /\ OnlyStamped(a)

\* C16 witness: the agent took as goal an item on its own tile although an
\* item that satisfies the same need, one tile away, comes earlier in the
\* functional bucket.
C16_NearerBeatsEarlier ==
  \E a \in Npcs :
    /\ Decided(a) /\ HelpCalls(prevWorld, a) = {}
    /\ ents[a].targetItem # NULL /\ pass.prevE[a].targetItem = NULL
    /\ \E j \in Candidates(prevWorld, ents[a].currentGoal.needType) :
         /\ BucketIndex(prevWorld, j) < BucketIndex(prevWorld, ents[a].targetItem)
         /\ Dist2(ents[a], ents[j]) > Dist2(ents[a], ents[ents[a].targetItem])

\* agent a was Moving or Using before the last step
Busy(a) == pass.prevE[a].isMoving \/ pass.prevE[a].usingItem

\* the last step was the usage section of a's own update and ended its use
UseEnded(a) ==
  /\ pass.step = "usage" /\ pass.id = a
  /\ pass.prevE[a].usingItem /\ ~ents[a].usingItem

\* C17: the decision runs only when the agent is neither Moving nor Using: a
\* step taken while an agent is Moving or Using never changes its movement
\* target, changes its goal only by clearing it when its use completes, and
\* the decision section of its own update changes nothing at all.
C17_BusyAgentNotRedirected ==
  \A a \in PrevNpcs :
    Busy(a) =>
      /\ ents[a].targetTileX = pass.prevE[a].targetTileX
      /\ ents[a].targetTileY = pass.prevE[a].targetTileY
      /\ \/ /\ ents[a].currentGoal = pass.prevE[a].currentGoal
            /\ ents[a].targetItem = pass.prevE[a].targetItem
         \/ /\ UseEnded(a)
            /\ ents[a].currentGoal = NullRec /\ ents[a].targetItem = NULL
      /\ (pass.step = "decide" /\ pass.id = a) => ents = pass.prevE

\* C17 witness: the decision section was reached for a Using agent whose
\* decision was due, and passed it over.
C17_DueDecisionSkipped ==
  \E a \in PrevNpcs :
    /\ pass.step = "decide" /\ pass.id = a
    /\ pass.prevE[a].usingItem
    /\ now - pass.prevE[a].lastAITime > 1000
    /\ ents = pass.prevE

\* ========================================================================
\* The social specification: interactWithNPC, updateRelationship, goToItem
\* and wander called on agents 1 and 2 of a world of three agents and an item
\* ========================================================================

\* calls made in one session
MaxSocialOps == 3
\* personality.social of agent 1, in tenths
SocialTenths == {0, 3, 9}
\* value of every need of the agents at the start, in points
SocialLevels == {50, 95}
\* the change argument of updateRelationship
RelChanges == {0 - 250, 0 - 70, 5, 70}
\* the agents the calls are made on
Actors == {1, 2}

\* agents 1 and 2 anywhere on the map; agent 3 and item 4 on the centre tile,
\* agent 3 using the item or not
SocialInit ==
  /\ now = Epoch /\ frameMs = StepFrameMs /\ ticks = 0 /\ timeSystem = TimeSystem
  /\ mapWidth = StepWidth /\ mapHeight = StepHeight
  /\ activityLogger = ActivityLogger(50)
  /\ \E p1 \in MapTiles, p2 \in MapTiles, s \in SocialTenths, v \in SocialLevels,
        using \in BOOLEAN :
       LET fresh(x, y) == [NPC(x, y) EXCEPT !.needs = needsAt([k \in KindSet |-> v]),
                                            !.lastNeedUpdate = Epoch, !.lastAITime = Epoch]
           cx == mapWidth \div 2
           cy == mapHeight \div 2
           E0 == <<[fresh(p1[1], p1[2]) EXCEPT !.social = s], fresh(p2[1], p2[2]),
                   fresh(cx, cy), FunctionalItem(cx, cy, "apple")>>
           w0 == [E |-> E0,
                  m |-> add(add(add(add(EntityManager, E0, 1), E0, 2), E0, 3), E0, 4)]
           w1 == IF using THEN npcMovement(goToItem(w0, 3, 4, "hunger"), 3, Epoch) ELSE w0
       IN  /\ ents = w1.E
           /\ entities = w1.m.entities
           /\ entitiesByType = w1.m.entitiesByType
           /\ entitiesByPosition = w1.m.entitiesByPosition
  /\ pass = IdlePass
  /\ cItem = NoItem /\ cRet = NoRet /\ cNeeds = NoNeeds /\ cOps = 0

\* interactWithNPC(otherNPC)
SoInteract ==
  /\ cOps < MaxSocialOps
  /\ \E a \in Actors, b \in Npcs :
       /\ b # a
       /\ SetWorld(interactWithNPC(world, a, b))
       /\ pass' = Stepped("interact", a)
       /\ cRet' = [op |-> "interact", other |-> b]
  /\ cOps' = cOps + 1
  /\ UNCHANGED <<now, frameMs, ticks, timeSystem, mapWidth, mapHeight, activityLogger, cItem, cNeeds>>

\* updateRelationship(other, change)
SoRelate ==
  /\ cOps < MaxSocialOps
  /\ \E a \in Actors, b \in Npcs, change \in RelChanges :
       /\ b # a
       /\ ents' = [ents EXCEPT ![a] = updateRelationship(@, b, change)]
       /\ pass' = Stepped("relate", a)
       /\ cRet' = [op |-> "relate", other |-> b, change |-> change]
  /\ cOps' = cOps + 1
  /\ UNCHANGED <<now, frameMs, ticks, timeSystem, entities, entitiesByType,
                 entitiesByPosition, mapWidth, mapHeight, activityLogger, cItem, cNeeds>>

\* goToItem(item, needType)
SoGoToItem ==
  /\ cOps < MaxSocialOps
  /\ \E a \in Actors, item \in Managed \ Npcs :
       /\ SetWorld(goToItem(world, a, item, "hunger"))
       /\ pass' = Stepped("goToItem", a)
       /\ cRet' = [op |-> "goToItem", other |-> item]
  /\ cOps' = cOps + 1
  /\ UNCHANGED <<now, frameMs, ticks, timeSystem, mapWidth, mapHeight, activityLogger, cItem, cNeeds>>

\* wander()
SoWander ==
  /\ cOps < MaxSocialOps
  /\ \E a \in Actors :
       /\ \E w \in wander(world, a) : SetWorld(w)
       /\ pass' = Stepped("wander", a)
       /\ cRet' = [op |-> "wander", other |-> NULL]
  /\ cOps' = cOps + 1
  /\ UNCHANGED <<now, frameMs, ticks, timeSystem, mapWidth, mapHeight, activityLogger, cItem, cNeeds>>

SocialNext == SoInteract \/ SoRelate \/ SoGoToItem \/ SoWander

SocialSpec == SocialInit /\ [][SocialNext]_vars

\* the value of e's relationship record for o, 0 if there is none
relValue(e, o) ==
  IF o \in DOMAIN e.relationships THEN e.relationships[o].value ELSE 0

\* the last step was a direct interaction of a with the adjacent agent b
Interacted(a, b) ==
  /\ cRet.op = "interact" /\ pass.id = a /\ cRet.other = b
  /\ Dist2(pass.prevE[a], pass.prevE[b]) <= 1

\* the needs of e with kind k raised by amount, capped at the maximum of k
Raised(needs, k, amount) ==
  [needs EXCEPT ![k].value =
     IF needs[k].value + amount > needTypes[k].max THEN needTypes[k].max
     ELSE needs[k].value + amount]

\* C18: a direct interaction of A with the adjacent B raises A's relationship
\* value for B and B's for A by 5, from 0 if there was no record, capped at
\* 100; raises A's social by 10 + 5s and happiness by 5 + 3s, s being A's
\* sociability; raises B's social and happiness by exactly 8/10 of those
\* amounts; every need is capped at its maximum and nothing else changes.
C18_InteractionGains ==
  \A a \in Actors, b \in Npcs :
    (b # a /\ Interacted(a, b)) =>
      LET A0 == pass.prevE[a]
          B0 == pass.prevE[b]
          socialGain == 10 * Pt + A0.social * (Pt \div 2)
          happinessGain == 5 * Pt + A0.social * ((3 * Pt) \div 10)
          share(g) == CHOOSE x \in {(4 * g) \div 5} : 5 * x = 4 * g
      IN  /\ relValue(ents[a], b) = (IF relValue(A0, b) + 5 > 100 THEN 100 ELSE relValue(A0, b) + 5)
          /\ relValue(ents[b], a) = (IF relValue(B0, a) + 5 > 100 THEN 100 ELSE relValue(B0, a) + 5)
          /\ b \in DOMAIN ents[a].relationships /\ a \in DOMAIN ents[b].relationships
          /\ ents[a].needs = Raised(Raised(A0.needs, "social", socialGain),
                                    "happiness", happinessGain)
          /\ ents[b].needs = Raised(Raised(B0.needs, "social", share(socialGain)),
                                    "happiness", share(happinessGain))
          /\ \A o \in DOMAIN ents \ {a, b} : ents[o] = pass.prevE[o]

\* C18 witness: an interaction created both records at 5 and raised the
\* initiator's social by 14.5 points and the partner's by 11.6.
C18_BothCredited ==
  \E a \in Actors, b \in Npcs :
    /\ b # a /\ Interacted(a, b)
    /\ b \notin DOMAIN pass.prevE[a].relationships
    /\ a \notin DOMAIN pass.prevE[b].relationships
    /\ relValue(ents[a], b) = 5 /\ relValue(ents[b], a) = 5
    /\ ents[a].needs["social"].value = pass.prevE[a].needs["social"].value + 14500000
    /\ ents[b].needs["social"].value = pass.prevE[b].needs["social"].value + 11600000

\* C19: after any sequence of updateRelationship calls and interactions every
\* relationship value of every agent is within [-100, 100].
C19_RelationshipBounds ==
  \A a \in Npcs : \A o \in DOMAIN ents[a].relationships :
    /\ ents[a].relationships[o].value >= 0 - 100
    /\ ents[a].relationships[o].value <= 100

\* C19 witness: an updateRelationship call whose change would have taken the
\* value below -100 left it at -100.
C19_FloorReached ==
  \E a \in Actors :
    /\ cRet.op = "relate" /\ pass.id = a
    /\ relValue(pass.prevE[a], cRet.other) + cRet.change < 0 - 100
    /\ relValue(pass.prevE[a], cRet.other) < 0
    /\ relValue(ents[a], cRet.other) = 0 - 100

\* tile (x, y) of world w is off the map or holds an indexed functional item
\* that is in use
Blocked(w, x, y) ==
  \/ <<x, y>> \notin MapTiles
  \/ \E i \in SeqToSet(w.m.entities) :
       /\ w.E[i].type = "functional" /\ w.E[i].inUse
       /\ w.E[i].tileX = x /\ w.E[i].tileY = y

\* the tile one step from e toward o, along the axis of the larger offset
ApproachTile(e, o) ==
  LET dx == o.tileX - e.tileX
      dy == o.tileY - e.tileY
      wide == dx * dx > dy * dy
  IN  <<IF wide THEN (IF dx > 0 THEN e.tileX + 1 ELSE e.tileX - 1) ELSE e.tileX,
        IF wide THEN e.tileY ELSE (IF dy > 0 THEN e.tileY + 1 ELSE e.tileY - 1)>>

\* the tiles the last call on agent a proposed for a move
CandidateTiles(a) ==
  LET e == pass.prevE[a]
  IN  IF cRet.op = "goToItem"
      THEN {<<pass.prevE[cRet.other].tileX, pass.prevE[cRet.other].tileY>>}
      ELSE IF cRet.op = "wander"
      THEN {<<e.tileX, e.tileY + 1>>, <<e.tileX - 1, e.tileY>>,
            <<e.tileX + 1, e.tileY>>, <<e.tileX, e.tileY - 1>>}
      ELSE IF cRet.op = "interact" /\ Dist2(e, pass.prevE[cRet.other]) > 1
      THEN {ApproachTile(e, pass.prevE[cRet.other])}
      ELSE {}

\* C20: goToItem, wander and the approach step of interactWithNPC never start
\* a move to a tile off the map or holding a functional item in use; when
\* every tile the call proposed is rejected, the agent's position, movement
\* target and Moving flag, and everything else, stay as they were.
C20_NoMoveOntoBlockedTile ==
  /\ \A a \in PrevNpcs :
       (~pass.prevE[a].isMoving /\ ents[a].isMoving)
         => ~Blocked(prevWorld, ents[a].targetTileX, ents[a].targetTileY)
  /\ \A a \in Actors :
       (/\ pass.id = a /\ CandidateTiles(a) # {}
        /\ \A t \in CandidateTiles(a) : Blocked(prevWorld, t[1], t[2]))
         => ents = pass.prevE

\* C20 witness: an idle agent asked to approach a partner two tiles away,
\* with an item in use on the tile between them, did not move.
C20_ApproachRejected ==
  \E a \in Actors :
    /\ pass.id = a /\ cRet.op = "interact"
    /\ ~pass.prevE[a].isMoving
    /\ CandidateTiles(a) # {}
    /\ \A t \in CandidateTiles(a) : t \in MapTiles /\ Blocked(prevWorld, t[1], t[2])
    /\ ~ents[a].isMoving
    /\ ents[a].targetTileX = ents[a].tileX /\ ents[a].targetTileY = ents[a].tileY

\* ========================================================================
\* The save specification: saveMap, loadMap and deserialize on a world of one
\* agent and one item
\* ========================================================================

\* calls made in one session
MaxSaveOps == 3
\* frames run in one session
SaveFrames == 2
\* need values of the agent at the start, in points
SaveValues == {10, 42, 100}

\* JSON.stringify of a number: sign and decimal digits
RECURSIVE toDigits(_)
toDigits(n) == IF n < 10 THEN <<n>> ELSE Append(toDigits(n \div 10), n % 10)

stringifyNumber(n) ==
  [neg |-> n < 0, digits |-> toDigits(IF n < 0 THEN 0 - n ELSE n)]

\* JSON.parse of a number
RECURSIVE fromDigits(_)
fromDigits(d) ==
  IF Len(d) = 0 THEN 0 ELSE 10 * fromDigits(SubSeq(d, 1, Len(d) - 1)) + d[Len(d)]

parseNumber(j) == IF j.neg THEN 0 - fromDigits(j.digits) ELSE fromDigits(j.digits)

\* Entity.serialize(): the fields the model keeps
entitySerialize(E, id) ==
  [id |-> id, type |-> E[id].type, tileX |-> E[id].tileX, tileY |-> E[id].tileY]

\* variant: the needs are not written
npcSerialize_noNeeds(E, id) ==
  entitySerialize(E, id)

\* NPC.serialize()
npcSerialize(E, id) ==
  [f \in {"id", "type", "tileX", "tileY", "needs"} |->
     IF f = "needs" THEN E[id].needs ELSE entitySerialize(E, id)[f]]

\* FunctionalItem.serialize()
itemSerialize(E, id) ==
  [f \in {"id", "type", "tileX", "tileY", "itemDef"} |->
     IF f = "itemDef" THEN E[id].itemDef
     ELSE IF f = "type" THEN "functional" ELSE entitySerialize(E, id)[f]]

\* the fields of a FunctionalItem; an object that has them is one, and has
\* the methods canSatisfy, isAvailable and startUse
HasContract(e) == {"itemDef", "inUse", "usedBy", "useTime", "maxUseTime"} \subseteq DOMAIN e

\* EntityManager.serialize(): each entity's own serialize(); that of an Item
\* writes the Entity fields (and itemType, quantity, which nothing reads)
managerSerialize(m, E) ==
  LET kept == SelectSeq(m.entities, LAMBDA id : ~E[id].markedForRemoval)
  IN  [i \in 1..Len(kept) |->
         IF E[kept[i]].type = "npc" THEN npcSerialize(E, kept[i])
         ELSE IF HasContract(E[kept[i]]) THEN itemSerialize(E, kept[i])
         ELSE entitySerialize(E, kept[i])]

\* JSON.stringify of one entry: every number becomes its text
stringifyEntry(d) ==
  [f \in DOMAIN d |->
     IF f \in {"id", "tileX", "tileY"} THEN stringifyNumber(d[f])
     ELSE IF f = "needs"
     THEN [k \in DOMAIN d.needs |->
             [g \in DOMAIN d.needs[k] |-> stringifyNumber(d.needs[k][g])]]
     ELSE d[f]]

\* JSON.parse of one entry
parseEntry(j) ==
  [f \in DOMAIN j |->
     IF f \in {"id", "tileX", "tileY"} THEN parseNumber(j[f])
     ELSE IF f = "needs"
     THEN [k \in DOMAIN j.needs |->
             [g \in DOMAIN j.needs[k] |-> parseNumber(j.needs[k][g])]]
     ELSE j[f]]

\* Entity.deserialize(data): setPosition puts the pixel position on the tile
entityDeserialize(e, data) ==
  [e EXCEPT !.type = data.type, !.tileX = data.tileX, !.tileY = data.tileY, !.moveSteps = 0]

\* variant: the needs are assigned whether the data has them or not
npcDeserialize_always(e, data) ==
  [entityDeserialize(e, data) EXCEPT
     !.needs = IF "needs" \in DOMAIN data THEN data.needs ELSE NoNeeds]

\* NPC.deserialize(data)
npcDeserialize(e, data) ==
  IF "needs" \in DOMAIN data
  THEN [entityDeserialize(e, data) EXCEPT !.needs = data.needs]
  ELSE entityDeserialize(e, data)

\* FunctionalItem.deserialize(data)
itemDeserialize(e, data) ==
  IF "itemDef" \in DOMAIN data
  THEN [entityDeserialize(e, data) EXCEPT !.itemDef = data.itemDef,
                                          !.maxUseTime = ItemDefs[data.itemDef].useTime]
  ELSE entityDeserialize(e, data)

\* new Item(x, y, name): an Entity of type 'item'; it has none of canSatisfy,
\* isAvailable, startUse, and no itemDef, inUse, usedBy
Item(x, y) ==
  [type |-> "item", tileX |-> x, tileY |-> y, active |-> TRUE, markedForRemoval |-> FALSE]

\* the entity factory of loadMap followed by entity.deserialize(entityData)
loadEntity(data) ==
  IF data.type = "npc"
  THEN npcDeserialize(NPC(data.tileX, data.tileY), data)
  ELSE IF data.type = "functional" /\ "itemDef" \in DOMAIN data
  THEN itemDeserialize(FunctionalItem(data.tileX, data.tileY, data.itemDef), data)
  ELSE entityDeserialize(Item(data.tileX, data.tileY), data)

\* the loop of EntityManager.deserialize from entry i on
RECURSIVE loadLoop(_, _, _)
loadLoop(w, data, i) ==
  IF i > Len(data) THEN w
  ELSE LET E == [w.E EXCEPT ![data[i].id] = loadEntity(data[i])]
       IN  loadLoop([E |-> E, m |-> add(w.m, E, data[i].id)], data, i + 1)

\* EntityManager.deserialize(data, entityFactory)
managerDeserialize(w, data) == loadLoop([w EXCEPT !.m = EntityManager], data, 1)

\* agent 1 with the given needs anywhere on the map and item 2 on the centre
\* tile; the agent idle, sent to the item, or one movement step later
SaveInit ==
  /\ now = Epoch /\ frameMs = StepFrameMs /\ ticks = 0 /\ timeSystem = TimeSystem
  /\ mapWidth = StepWidth /\ mapHeight = StepHeight
  /\ activityLogger = ActivityLogger(50)
  /\ \E p \in MapTiles, v \in [KindSet -> SaveValues], stage \in 0..2 :
       LET agent == [NPC(p[1], p[2]) EXCEPT !.needs = needsAt(v), !.lastNeedUpdate = Epoch,
                                            !.lastAITime = Epoch]
           E0 == <<agent, FunctionalItem(mapWidth \div 2, mapHeight \div 2, "apple")>>
           w0 == [E |-> E0, m |-> add(add(EntityManager, E0, 1), E0, 2)]
           w1 == goToItem(w0, 1, 2, "hunger")
           w2 == npcMovement(w1, 1, Epoch)
           w == IF stage = 0 THEN w0 ELSE IF stage = 1 THEN w1 ELSE w2
       IN  /\ ents = w.E
           /\ entities = w.m.entities
           /\ entitiesByType = w.m.entitiesByType
           /\ entitiesByPosition = w.m.entitiesByPosition
  /\ pass = IdlePass
  /\ cItem = NoItem /\ cRet = NoRet /\ cNeeds = NoNeeds /\ cOps = 0

\* a frame: the clock and the decay section of the agent's update
SvTick ==
  /\ ticks < SaveFrames
  /\ now' = now + frameMs
  /\ timeSystem' = timeUpdate(timeSystem, frameMs)
  /\ ticks' = ticks + 1
  /\ SetWorld(npcDecay(world, 1, now + frameMs, timeUpdate(timeSystem, frameMs), frameMs))
  /\ pass' = Stepped("decay", 1)
  /\ UNCHANGED <<frameMs, mapWidth, mapHeight, activityLogger, cItem, cRet, cNeeds, cOps>>

\* saveMap(): the entities of the file
SvSave ==
  /\ cOps < MaxSaveOps
  /\ cRet' = [op |-> "save", saved |-> ents, partial |-> FALSE,
              file |-> [i \in DOMAIN managerSerialize(manager, ents) |->
                          stringifyEntry(managerSerialize(manager, ents)[i])]]
  /\ pass' = Stepped("save", NULL)
  /\ cOps' = cOps + 1
  /\ UNCHANGED <<worldVars, cItem, cNeeds>>

\* a file whose agent entries have no needs field
SvStrip ==
  /\ cOps < MaxSaveOps
  /\ cRet.op = "save"
  /\ cRet' = [cRet EXCEPT !.op = "strip", !.partial = TRUE,
                          !.file = [i \in DOMAIN cRet.file |->
                                      [f \in DOMAIN cRet.file[i] \ {"needs"} |-> cRet.file[i][f]]]]
  /\ pass' = Stepped("strip", NULL)
  /\ cOps' = cOps + 1
  /\ UNCHANGED <<worldVars, cItem, cNeeds>>

\* loadMap(): the entities of the file replace those of the index
SvLoad ==
  /\ cOps < MaxSaveOps
  /\ cRet.op \in {"save", "strip", "load", "deserialize"}
  /\ SetWorld(managerDeserialize(world, [i \in DOMAIN cRet.file |-> parseEntry(cRet.file[i])]))
  /\ cRet' = [cRet EXCEPT !.op = "load"]
  /\ pass' = Stepped("load", NULL)
  /\ cOps' = cOps + 1
  /\ UNCHANGED <<now, frameMs, ticks, timeSystem, mapWidth, mapHeight, activityLogger, cItem, cNeeds>>

\* deserialize(data) called on an agent of the index with an agent entry of
\* the file
SvDeserialize ==
  /\ cOps < MaxSaveOps
  /\ cRet.op \in {"save", "strip", "load", "deserialize"}
  /\ \E a \in Npcs \cap Managed, i \in DOMAIN cRet.file :
       /\ cRet.file[i].type = "npc"
       /\ ents' = [ents EXCEPT ![a] = npcDeserialize(@, parseEntry(cRet.file[i]))]
       /\ pass' = Stepped("deserialize", a)
  /\ cRet' = [cRet EXCEPT !.op = "deserialize"]
  /\ cOps' = cOps + 1
  /\ UNCHANGED <<now, frameMs, ticks, timeSystem, entities, entitiesByType,
                 entitiesByPosition, mapWidth, mapHeight, activityLogger, cItem, cNeeds>>

SaveNext == SvTick \/ SvSave \/ SvStrip \/ SvLoad \/ SvDeserialize

SaveSpec == SaveInit /\ [][SaveNext]_vars

\* the last step loaded a file that saveMap wrote and nobody edited
LoadedWhole == pass.step = "load" /\ ~cRet.partial

\* C21: after a map is saved and loaded, every agent of the file is in the
\* index with the five need values it had when saved, has no goal and no
\* target item and is neither Moving nor Using, and every functional item of
\* the file is in the index and available.
C21_RoundTrip ==
  LoadedWhole =>
    \A id \in DOMAIN cRet.saved :
      /\ id \in Managed
      /\ cRet.saved[id].type = "npc" =>
           /\ \A k \in KindSet : ents[id].needs[k].value = cRet.saved[id].needs[k].value
           /\ ents[id].currentGoal = NullRec /\ ents[id].targetItem = NULL
           /\ ~ents[id].isMoving /\ ~ents[id].usingItem
      /\ cRet.saved[id].type = "functional" => isAvailable(ents[id])

\* C21 witness: a map saved while the agent was using the item was loaded
\* after the needs had decayed further; the agent has the saved values again,
\* is idle, and the item is free.
C21_UsingAgentReloaded ==
  /\ LoadedWhole
  /\ cRet.saved[1].usingItem /\ cRet.saved[2].inUse
  /\ pass.prevE[1].needs # cRet.saved[1].needs
  /\ ents[1].needs = cRet.saved[1].needs
  /\ ents[1].needs["hunger"].value < 42 * Pt /\ ents[1].needs["hunger"].value > 10 * Pt
  /\ ~ents[1].usingItem /\ ~ents[2].inUse

\* C22: deserializing agent data that has no needs field leaves the agent's
\* needs as they were, all five kinds present with their previous values;
\* an agent loaded from such data has the five kinds of a new agent.
C22_MissingNeedsTolerated ==
  /\ (pass.step = "deserialize" /\ cRet.partial) =>
       /\ DOMAIN ents[pass.id].needs = KindSet
       /\ ents[pass.id].needs = pass.prevE[pass.id].needs
  /\ (pass.step = "load" /\ cRet.partial) =>
       \A a \in Npcs \cap Managed : ents[a].needs = initializeNeeds

\* C22 witness: an agent whose needs had decayed since the start was given
\* data without a needs field and kept them.
C22_DecayedNeedsKept ==
  /\ pass.step = "deserialize" /\ cRet.partial
  /\ pass.prevE[pass.id].needs # cRet.saved[pass.id].needs
  /\ pass.prevE[pass.id].needs # initializeNeeds
  /\ ents[pass.id].needs = pass.prevE[pass.id].needs

\* ========================================================================
\* The time specification: the calls of TimeSystem in any order
\* ========================================================================

\* calls made in one session
MaxTimeOps == 4
\* deltaTime of update, in ms: multiples of 60, so that an advance is a whole
\* number of milli-minutes at every integer time scale
TimeDeltas == {0, 60, 1020, 60000, 540000}
\* the arguments of setTime
TimeHours == {0, 5, 6, 17, 18, 20, 21, 23}
TimeMinutes == {0, 59}
\* the arguments of setTimeScale
TimeScales == {0 - 5, 0, 1, 2, 60, 3600, 5000}

TimeInit ==
  /\ WorldIdle
  /\ pass = IdlePass
  /\ cItem = NoItem /\ cNeeds = NoNeeds /\ cOps = 0
  /\ cRet = [op |-> "new"]

\* the call op(arg) was made on the time system `before`
TimeCall(op, arg, after) ==
  /\ cOps < MaxTimeOps
  /\ timeSystem' = after
  /\ cRet' = [op |-> op, arg |-> arg, before |-> timeSystem]
  /\ cOps' = cOps + 1
  /\ UNCHANGED <<now, frameMs, ticks, ents, entities, entitiesByType, entitiesByPosition,
                 mapWidth, mapHeight, activityLogger, pass, cItem, cNeeds>>

\* timeSystem.update(deltaTime)
TUpdate == \E d \in TimeDeltas : TimeCall("update", d, timeUpdate(timeSystem, d))

\* timeSystem.setTime(hours, minutes)
TSetTime ==
  \E h \in TimeHours, m \in TimeMinutes : TimeCall("setTime", <<h, m>>, setTime(timeSystem, h, m))

\* timeSystem.setPaused(paused)
TSetPaused == \E b \in BOOLEAN : TimeCall("setPaused", b, setPaused(timeSystem, b))

\* timeSystem.setTimeScale(scale)
TSetTimeScale == \E x \in TimeScales : TimeCall("setTimeScale", x, setTimeScale(timeSystem, x))

TimeNext == TUpdate \/ TSetTime \/ TSetPaused \/ TSetTimeScale

TimeSpec == TimeInit /\ [][TimeNext]_vars

\* the game time that deltaMs of real time are at the given scale, in
\* milli-minutes: deltaMs / 1000 * scale / 60 minutes
Advance(deltaMs, scale) ==
  CHOOSE x \in {(deltaMs * scale) \div 60} : 60 * x = deltaMs * scale

\* C23: after any sequence of update, setTime, setPaused and setTimeScale
\* calls currentTime is in [0, dayLength) and timeScale in [1, 3600]; an
\* unpaused update advances currentTime by deltaTime / 1000 * timeScale / 60
\* minutes modulo dayLength and a paused update changes nothing.
C23_ClockInRange ==
  /\ timeSystem.currentTime >= 0 /\ timeSystem.currentTime < 24 * 60 * 1000
  /\ timeSystem.timeScale >= 1 /\ timeSystem.timeScale <= 3600
  /\ cRet.op = "update" =>
       IF cRet.before.isPaused THEN timeSystem = cRet.before
       ELSE timeSystem =
              [cRet.before EXCEPT !.currentTime =
                 (@ + Advance(cRet.arg, cRet.before.timeScale)) % (24 * 60 * 1000)]

\* C23 witness: an unpaused update at time scale 3600, set by a call with a
\* larger argument, advanced the clock by more than a day and wrapped it.
C23_WrappedAtFullScale ==
  /\ cRet.op = "update" /\ ~cRet.before.isPaused
  /\ cRet.before.timeScale = 3600
  /\ cRet.before.currentTime + Advance(cRet.arg, 3600) >= 2 * 24 * 60 * 1000
  /\ timeSystem.currentTime # cRet.before.currentTime

\* ========================================================================
\* The day specification: getTimeOfDay and getNeedDecayModifier at every
\* minute of the day
\* ========================================================================

\* the minutes of a day
DayMinutes == 0..(24 * 60 - 1)

\* the time system at the given minute after midnight
atMinute(m) == [TimeSystem EXCEPT !.currentTime = m * 1000]

DayInit ==
  /\ now = Epoch /\ frameMs = 0 /\ ticks = 0
  /\ timeSystem \in {atMinute(m) : m \in DayMinutes}
  /\ mapWidth = MapWidth /\ mapHeight = MapHeight
  /\ activityLogger = ActivityLogger(50)
  /\ ents = <<>> /\ entities = <<>>
  /\ entitiesByType = EntityManager.entitiesByType
  /\ entitiesByPosition = EntityManager.entitiesByPosition
  /\ pass = IdlePass
  /\ cItem = NoItem /\ cNeeds = NoNeeds /\ cOps = 0
  /\ cRet = [op |-> "new"]

\* timeSystem.getTimeOfDay()
DTimeOfDay ==
  /\ cRet' = [op |-> "getTimeOfDay", arg |-> NULL, result |-> getTimeOfDay(timeSystem)]
  /\ UNCHANGED <<worldVars, pass, cItem, cNeeds, cOps>>

\* timeSystem.getNeedDecayModifier(needType)
DModifier ==
  /\ \E k \in KindSet :
       cRet' = [op |-> "getNeedDecayModifier", arg |-> k,
                result |-> getNeedDecayModifier(timeSystem, k)]
  /\ UNCHANGED <<worldVars, pass, cItem, cNeeds, cOps>>

DayNext == DTimeOfDay \/ DModifier

DaySpec == DayInit /\ [][DayNext]_vars

\* the hour of the day of the time system
Hour == timeSystem.currentTime \div (60 * 1000)

C25_EveningDecaysSlower ==
  (cRet.op = "getNeedDecayModifier" /\ Hour >= 18) =>
    \A d \in DayMinutes :
      (d >= 6 * 60 /\ d < 18 * 60) =>
        /\ cRet.result <= getNeedDecayModifier(atMinute(d), cRet.arg)
        /\ cRet.arg \in {"sleep", "happiness", "social"}
             => cRet.result < getNeedDecayModifier(atMinute(d), cRet.arg)

\* C26: in every update of an agent in which more than 100 ms have passed
\* since its last decay, the decay is applied (every need above 0 falls and
\* the time of the decay is the present), whether the agent is idle, Moving or
\* Using; and in every update in which more than 1000 ms have passed since
\* its last decision and it is neither Moving nor Using at the decision
\* section, a decision is made, in the same update as the decay.
C26_BothCadencesRun ==
  \A a \in PrevNpcs :
    /\ (pass.step = "decay" /\ pass.id = a /\ now - pass.prevE[a].lastNeedUpdate > 100) =>
         /\ ents[a].lastNeedUpdate = now
         /\ \A k \in KindSet :
              /\ ents[a].needs[k].value <= pass.prevE[a].needs[k].value
              /\ pass.prevE[a].needs[k].value > 0 =>
                   ents[a].needs[k].value < pass.prevE[a].needs[k].value
    /\ (/\ pass.step = "decide" /\ pass.id = a
        /\ now - pass.prevE[a].lastAITime > 1000
        /\ ~pass.prevE[a].isMoving /\ ~pass.prevE[a].usingItem) =>
         /\ ents[a].lastAITime = now
         /\ ents[a].lastNeedUpdate = now

\* C26 witness: an agent whose needs were credited by an item decayed in the
\* decay section of an update while it was Using.
C26_DecaysWhileUsing ==
  \E a \in PrevNpcs :
    /\ pass.step = "decay" /\ pass.id = a
    /\ pass.prevE[a].usingItem
    /\ pass.prevE[a].lastNeedUpdate > 0
    /\ ents[a].lastNeedUpdate = now

\* the entities in the index before the last step
PrevManaged == SeqToSet(pass.prevM.entities)

\* C27: an agent never reserves and is never credited by an item that has
\* been removed from the index, and when its own update ends its target item,
\* if it has one, is in the index.
C27_NoUseOfRemovedItem ==
  \A a \in PrevNpcs :
    /\ (~pass.prevE[a].usingItem /\ ents[a].usingItem) => ents[a].targetItem \in PrevManaged
    /\ Completed(a) => pass.prevE[a].targetItem \in PrevManaged
    /\ (pass.step = "reindex" /\ pass.id = a /\ ents[a].targetItem # NULL)
         => ents[a].targetItem \in Managed

\* ========================================================================
\* The log specification: the calls of ActivityLogger in any order
\* ========================================================================

\* calls made in one session
MaxLogOps == 6
\* maxEntries of the logger under test
LogCapacities == {0, 1, 2, 3}
\* the messages logged and the callbacks registered
LogMessages == {"seeking", "ate"}
LogCallbacks == {"console", "probe"}

\* cRet holds the last call, the listener calls it made, and every entry
\* logged since the entries were last empty by construction or clear()
LogInit ==
  /\ now = Epoch /\ frameMs = 0 /\ ticks = 0 /\ timeSystem = TimeSystem
  /\ mapWidth = MapWidth /\ mapHeight = MapHeight
  /\ activityLogger \in {ActivityLogger(n) : n \in LogCapacities}
  /\ ents = <<>> /\ entities = <<>>
  /\ entitiesByType = EntityManager.entitiesByType
  /\ entitiesByPosition = EntityManager.entitiesByPosition
  /\ pass = IdlePass
  /\ cItem = NoItem /\ cNeeds = NoNeeds /\ cOps = 0
  /\ cRet = [op |-> "new", calls |-> <<>>, logged |-> <<>>, before |-> NullRec]

LogFrame ==
  UNCHANGED <<now, frameMs, ticks, timeSystem, ents, entities, entitiesByType,
              entitiesByPosition, mapWidth, mapHeight, pass, cItem, cNeeds>>

\* activityLogger.log(message, type, data); the entry carries the number of
\* the call in place of Date.now()
LLog ==
  /\ cOps < MaxLogOps
  /\ \E m \in LogMessages :
       LET entry == [timestamp |-> cOps + 1, message |-> m]
           r == log(activityLogger, entry)
       IN  /\ activityLogger' = r.logger
           /\ cRet' = [op |-> "log", calls |-> r.calls, logged |-> Append(cRet.logged, entry),
                       before |-> activityLogger]
  /\ cOps' = cOps + 1
  /\ LogFrame

\* activityLogger.addListener(callback)
LAddListener ==
  /\ cOps < MaxLogOps
  /\ \E c \in LogCallbacks : activityLogger' = addListener(activityLogger, c)
  /\ cRet' = [cRet EXCEPT !.op = "addListener", !.calls = <<>>, !.before = activityLogger]
  /\ cOps' = cOps + 1
  /\ LogFrame

\* activityLogger.removeListener(callback)
LRemoveListener ==
  /\ cOps < MaxLogOps
  /\ \E c \in LogCallbacks : activityLogger' = removeListener(activityLogger, c)
  /\ cRet' = [cRet EXCEPT !.op = "removeListener", !.calls = <<>>, !.before = activityLogger]
  /\ cOps' = cOps + 1
  /\ LogFrame

\* activityLogger.clear()
LClear ==
  /\ cOps < MaxLogOps
  /\ activityLogger' = clearLog(activityLogger).logger
  /\ cRet' = [op |-> "clear", calls |-> clearLog(activityLogger).calls, logged |-> <<>>,
              before |-> activityLogger]
  /\ cOps' = cOps + 1
  /\ LogFrame

LogNext == LLog \/ LAddListener \/ LRemoveListener \/ LClear

LogSpec == LogInit /\ [][LogNext]_vars

\* the last n elements of s, all of s if it has fewer
LastN(s, n) ==
  IF Len(s) <= n THEN s ELSE SubSeq(s, Len(s) - n + 1, Len(s))

\* C28: after any sequence of log calls the logger holds at most maxEntries
\* entries, which are the most recently logged ones in the order logged; and
\* a log call calls every registration of the listener list once, in order,
\* with the new entry.
C28_RingBuffer ==
  /\ Len(activityLogger.entries) <= activityLogger.maxEntries
  /\ activityLogger.entries = LastN(cRet.logged, activityLogger.maxEntries)
  /\ cRet.op = "log" =>
       /\ Len(cRet.calls) = Len(cRet.before.listeners)
       /\ \A i \in 1..Len(cRet.calls) :
            /\ cRet.calls[i][1] = cRet.before.listeners[i]
            /\ cRet.calls[i][2] = cRet.logged[Len(cRet.logged)]

\* C28 witness: the fourth entry logged into a logger of capacity 2 evicted
\* the second, and the two registered listeners were each called with it.
C28_OldestEvicted ==
  /\ cRet.op = "log" /\ Len(cRet.logged) = 4
  /\ activityLogger.maxEntries = 2
  /\ activityLogger.entries = SubSeq(cRet.logged, 3, 4)
  /\ cRet.before.entries = SubSeq(cRet.logged, 2, 3)
  /\ {cRet.calls[i][1] : i \in 1..Len(cRet.calls)} = LogCallbacks

\* the steps of the game loop, which requestAnimationFrame keeps running
FrameStep == SBegin \/ SVisit \/ SUsage \/ SMove \/ SDecide \/ SReindex \/ SRemove

\* agents spawned on the centre tile of the map, and one item spawned there
\* before or after them
RefusalAgents == {2, 3}

RefusalInit ==
  /\ now = Epoch /\ frameMs = StepFrameMs /\ ticks = 0 /\ timeSystem = TimeSystem
  /\ mapWidth = StepWidth /\ mapHeight = StepHeight
  /\ activityLogger = ActivityLogger(50)
  /\ \E n \in RefusalAgents, d \in DefKeys, first \in BOOLEAN :
       LET cx == mapWidth \div 2
           cy == mapHeight \div 2
           item == FunctionalItem(cx, cy, d)
           E0 == [i \in 1..(n + 1) |->
                    IF (first /\ i = 1) \/ (~first /\ i = n + 1) THEN item ELSE NPC(cx, cy)]
           m0 == IF n = 2
                 THEN add(add(add(EntityManager, E0, 1), E0, 2), E0, 3)
                 ELSE add(add(add(add(EntityManager, E0, 1), E0, 2), E0, 3), E0, 4)
       IN  /\ ents = E0
           /\ entities = m0.entities
           /\ entitiesByType = m0.entitiesByType
           /\ entitiesByPosition = m0.entitiesByPosition
  /\ pass = IdlePass
  /\ cItem = NoItem /\ cRet = NoRet /\ cNeeds = NoNeeds /\ cOps = 0

\* the game loop alone, which never stops before the last frame
RefusalSpec == RefusalInit /\ [][FrameStep]_vars /\ WF_vars(FrameStep)

\* agent a has just been refused the item it arrived at, with at least the
\* frames of one decision interval left
Refused(a) ==
  /\ a \in Npcs
  /\ ArrivedAtBusyItem(a)
  /\ pass.prevE[pass.prevE[a].targetItem].usedBy # a
  /\ ticks + 3 <= StepFrames

\* C29: an agent refused on arrival is neither Moving nor Using, and as the
\* frames go on it makes a new decision.
C29_RedecidesAfterRefusal ==
  /\ [](\A a \in Npcs : ArrivedAtBusyItem(a) => (~ents[a].isMoving /\ ~ents[a].usingItem))
  /\ \A a \in 1..StepEntities : Refused(a) ~> (a \in Npcs /\ Decided(a))

\* C29 witness: a decision of an agent that holds no reservation and whose
\* target item is in use by another agent, made after its first decision.
C29_DecidedAgain ==
  \E a \in PrevNpcs :
    /\ Decided(a)
    /\ pass.prevE[a].lastAITime > 0
    /\ pass.prevE[a].targetItem # NULL
    /\ pass.prevE[pass.prevE[a].targetItem].inUse
    /\ pass.prevE[pass.prevE[a].targetItem].usedBy # a

\* ========================================================================
\* The move specification: the game loop alone, long enough for an agent to
\* cross the map
\* ========================================================================

\* frames run in one session: 80 updates cross two tiles at 0.8 px an update
MoveFrames == 85
\* duration of a frame, in ms
MoveFrameMs == 60
\* definitions of the item
MoveKeys == {"apple", "meal"}

\* agent 1 anywhere on the map, item 2 anywhere on the map, and with or
\* without an agent 3 on the tile of the item
MoveInit ==
  /\ now = Epoch /\ frameMs = MoveFrameMs /\ ticks = 0 /\ timeSystem = TimeSystem
  /\ mapWidth = StepWidth /\ mapHeight = StepHeight
  /\ activityLogger = ActivityLogger(50)
  /\ \E p \in MapTiles, q \in MapTiles, d \in MoveKeys, rival \in BOOLEAN :
       LET E2 == <<NPC(p[1], p[2]), FunctionalItem(q[1], q[2], d)>>
           E3 == Append(E2, NPC(q[1], q[2]))
           m2 == add(add(EntityManager, E2, 1), E2, 2)
           w == IF rival THEN [E |-> E3, m |-> add(add(add(EntityManager, E3, 1), E3, 2), E3, 3)]
                ELSE [E |-> E2, m |-> m2]
       IN  /\ ents = w.E
           /\ entities = w.m.entities
           /\ entitiesByType = w.m.entitiesByType
           /\ entitiesByPosition = w.m.entitiesByPosition
  /\ pass = IdlePass
  /\ cItem = NoItem /\ cRet = NoRet /\ cNeeds = NoNeeds /\ cOps = 0

\* MapRenderer.update(deltaTime): the clock, and the start of EntityManager.update
MBegin ==
  /\ pass.pc = "idle" /\ ticks < MoveFrames
  /\ now' = now + frameMs
  /\ timeSystem' = timeUpdate(timeSystem, frameMs)
  /\ pass' = [Stepped("begin", NULL) EXCEPT
                !.pc = "visit", !.i = 1, !.order = entities, !.toRemove = <<>>,
                !.marked = {id \in Managed : ents[id].markedForRemoval}]
  /\ UNCHANGED <<frameMs, ticks, ents, entities, entitiesByType, entitiesByPosition,
                 mapWidth, mapHeight, activityLogger, cItem, cRet, cNeeds, cOps>>

MoveNext == MBegin \/ SVisit \/ SUsage \/ SMove \/ SDecide \/ SReindex \/ SRemove

MoveSpec == MoveInit /\ [][MoveNext]_vars /\ WF_vars(MoveNext)

\* the last step was the movement section of a's update and ended its move
ArrivedNow(a) ==
  /\ pass.step = "move" /\ pass.id = a
  /\ pass.prevE[a].isMoving /\ ~ents[a].isMoving

\* the last step started a move of agent a, and the frames left in the session
\* are enough for the updates the distance takes
StartedMoving(a) ==
  /\ a \in PrevNpcs
  /\ ~pass.prevE[a].isMoving /\ ents[a].isMoving
  /\ LET dx == ents[a].targetTileX - ents[a].tileX
         dy == ents[a].targetTileY - ents[a].tileY
         left == MoveFrames - ticks - 1
     IN  1600 * (dx * dx + dy * dy) < left * left

\* C30: an agent that starts moving eventually arrives; at the arrival it is
\* on its target tile with its pixel position on the tile, and if its target
\* item is on that tile a reservation is attempted in the same update: it
\* succeeds if the item was free and changes nothing if it was taken; until
\* the arrival the agent's tile coordinates are those of the tile it left.
C30_MoveEnds ==
  /\ [](\A a \in PrevNpcs :
          /\ (pass.prevE[a].isMoving /\ ~ArrivedNow(a)) =>
               /\ ents[a].tileX = pass.prevE[a].tileX
               /\ ents[a].tileY = pass.prevE[a].tileY
          /\ ArrivedNow(a) =>
               /\ ents[a].tileX = pass.prevE[a].targetTileX
               /\ ents[a].tileY = pass.prevE[a].targetTileY
               /\ ents[a].moveSteps = 0
               /\ LET item == pass.prevE[a].targetItem
                  IN  (item # NULL /\ ents[item].tileX = ents[a].tileX
                                   /\ ents[item].tileY = ents[a].tileY) =>
                        IF pass.prevE[item].inUse
                        THEN ~ents[a].usingItem /\ ents[item] = pass.prevE[item]
                        ELSE /\ ents[a].usingItem /\ ents[a].useStartTime = now
                             /\ ents[item].inUse /\ ents[item].usedBy = a)
  /\ \A a \in 1..StepEntities : StartedMoving(a) ~> (a \in PrevNpcs /\ ArrivedNow(a))

\* C30 witness: an agent arrived at an item two tiles from where it started,
\* after 80 updates on the tile it left, and reserved it.
C30_CrossedTheMap ==
  \E a \in PrevNpcs :
    /\ ArrivedNow(a)
    /\ pass.prevE[a].moveSteps = 80
    /\ ents[a].tileX # pass.prevE[a].tileX
    /\ ents[a].usingItem /\ ents[ents[a].targetItem].usedBy = a

\* ========================================================================
\* Claims on wander and the approach of a partner, in the social specification
\* ========================================================================

\* the four tiles orthogonally adjacent to the tile of e
Adjacent(e) ==
  {<<e.tileX, e.tileY + 1>>, <<e.tileX - 1, e.tileY>>,
   <<e.tileX + 1, e.tileY>>, <<e.tileX, e.tileY - 1>>}

\* the last step was a call of wander on agent a, made as the decision makes
\* it: on an agent that is not Moving
WanderCalled(a) ==
  pass.step = "wander" /\ pass.id = a /\ ~pass.prevE[a].isMoving

\* C31: wander starts a move to exactly one of the four orthogonally adjacent
\* tiles, one that passes canMoveTo, and changes nothing else; it starts no
\* move, and changes nothing at all, if and only if none of the four passes.
C31_WanderOneValidStep ==
  \A a \in Actors :
    WanderCalled(a) =>
      LET e == pass.prevE[a]
          open == {t \in Adjacent(e) : canMoveTo(prevWorld, t[1], t[2])}
      IN  /\ (open = {}) <=> ~ents[a].isMoving
          /\ open = {} => ents = pass.prevE
          /\ open # {} =>
               /\ <<ents[a].targetTileX, ents[a].targetTileY>> \in open
               /\ ents = [pass.prevE EXCEPT ![a] =
                            [e EXCEPT !.isMoving = TRUE,
                                      !.targetTileX = ents[a].targetTileX,
                                      !.targetTileY = ents[a].targetTileY]]
          /\ entitiesByPosition = pass.prevM.entitiesByPosition

\* C31 witness: an agent at the end of the map, whose only neighbouring tile
\* on the map holds an item in use, wandered and stayed put.
C31_Hemmed ==
  \E a \in Actors :
    /\ WanderCalled(a)
    /\ \E t \in Adjacent(pass.prevE[a]) : t \in MapTiles
    /\ \A t \in Adjacent(pass.prevE[a]) : ~canMoveTo(prevWorld, t[1], t[2])
    /\ ~ents[a].isMoving

\* ========================================================================
\* The approach specification: trySocialize called on idle agents of a
\* square map
\* ========================================================================

\* calls made in one session
MaxApproachOps == 2
\* the tiles of the map
ApproachTiles == (0..(ApproachSize - 1)) \X (0..(ApproachSize - 1))

\* agents 1 and 2 anywhere on the map and item 3 on the centre tile; with or
\* without an agent 4 on the centre tile that is using the item
ApproachInit ==
  /\ now = Epoch /\ frameMs = StepFrameMs /\ ticks = 0 /\ timeSystem = TimeSystem
  /\ mapWidth = ApproachSize /\ mapHeight = ApproachSize
  /\ activityLogger = ActivityLogger(50)
  /\ \E p1 \in ApproachTiles, p2 \in ApproachTiles, using \in BOOLEAN :
       LET fresh(x, y) == [NPC(x, y) EXCEPT !.needs = needsAt([k \in KindSet |-> 50]),
                                            !.lastNeedUpdate = Epoch, !.lastAITime = Epoch]
           c == ApproachSize \div 2
           E3 == <<fresh(p1[1], p1[2]), fresh(p2[1], p2[2]), FunctionalItem(c, c, "apple")>>
           E4 == Append(E3, fresh(c, c))
           w3 == [E |-> E3, m |-> add(add(add(EntityManager, E3, 1), E3, 2), E3, 3)]
           w4 == [E |-> E4, m |-> add(add(add(add(EntityManager, E4, 1), E4, 2), E4, 3), E4, 4)]
           w == IF using THEN npcMovement(goToItem(w4, 4, 3, "hunger"), 4, Epoch) ELSE w3
       IN  /\ ents = w.E
           /\ entities = w.m.entities
           /\ entitiesByType = w.m.entitiesByType
           /\ entitiesByPosition = w.m.entitiesByPosition
  /\ pass = IdlePass
  /\ cItem = NoItem /\ cRet = NoRet /\ cNeeds = NoNeeds /\ cOps = 0

\* trySocialize(), as the decision section calls it: on an agent neither
\* Moving nor Using; cRet.other is the partner that was chosen, NULL if
\* nobody was near
ASocialize ==
  /\ cOps < MaxApproachOps
  /\ \E a \in Actors :
       /\ ~ents[a].isMoving /\ ~ents[a].usingItem
       /\ LET nearbyNPCs == findNearbyNPCs(world, a, 2)
          IN  \E w \in trySocialize(world, a) :
                /\ SetWorld(w)
                /\ \E o \in SeqToSet(nearbyNPCs) \cup {NULL} :
                     /\ IF Len(nearbyNPCs) > 0
                        THEN o # NULL /\ w = interactWithNPC(world, a, o)
                        ELSE o = NULL
                     /\ cRet' = [op |-> "socialize", other |-> o]
       /\ pass' = Stepped("socialize", a)
  /\ cOps' = cOps + 1
  /\ UNCHANGED <<now, frameMs, ticks, timeSystem, mapWidth, mapHeight, activityLogger, cItem, cNeeds>>

ApproachNext == ASocialize

ApproachSpec == ApproachInit /\ [][ApproachNext]_vars

\* the last step was a trySocialize of agent a that chose partner o
Chose(a, o) ==
  pass.step = "socialize" /\ pass.id = a /\ cRet.other = o /\ o # NULL

\* the number of interactions e has recorded with o
interactions(e, o) ==
  IF o \in DOMAIN e.relationships THEN e.relationships[o].interactions ELSE 0

\* C32: when the chosen partner is more than one tile away no interaction is
\* performed, and the agent either stays as it was or starts a move to an
\* adjacent tile strictly nearer the partner, on the axis of the larger
\* absolute offset (either axis if the offsets are equal); when the partner
\* is at distance at most 1 the interaction is performed and the agent
\* starts no move.
C32_ApproachOrInteract ==
  \A a \in Actors : \A o \in PrevNpcs :
    Chose(a, o) =>
      LET e == pass.prevE[a]
          p == pass.prevE[o]
          dx == p.tileX - e.tileX
          dy == p.tileY - e.tileY
          tx == ents[a].targetTileX
          ty == ents[a].targetTileY
      IN  /\ ents[a].tileX = e.tileX /\ ents[a].tileY = e.tileY
          /\ Dist2(e, p) > 1 =>
               /\ \A x \in PrevNpcs : /\ ents[x].needs = pass.prevE[x].needs
                                      /\ ents[x].relationships = pass.prevE[x].relationships
               /\ \/ ents = pass.prevE
                  \/ /\ ents = [pass.prevE EXCEPT ![a] =
                                  [e EXCEPT !.isMoving = TRUE, !.targetTileX = tx,
                                            !.targetTileY = ty]]
                     /\ <<tx, ty>> \in Adjacent(e)
                     /\ (tx - p.tileX) * (tx - p.tileX) + (ty - p.tileY) * (ty - p.tileY)
                          < Dist2(e, p)
                     /\ dx * dx > dy * dy => ty = e.tileY
                     /\ dy * dy > dx * dx => tx = e.tileX
          /\ Dist2(e, p) <= 1 =>
               /\ interactions(ents[a], o) = interactions(e, o) + 1
               /\ interactions(ents[o], a) = interactions(p, a) + 1
               /\ ~ents[a].isMoving
               /\ ents[a].targetTileX = e.targetTileX /\ ents[a].targetTileY = e.targetTileY

\* C32 witness: the partner was two tiles away along the vertical axis and
\* the agent started a move of one tile along that axis.
C32_SteppedVertically ==
  \E a \in Actors : \E o \in PrevNpcs :
    /\ Chose(a, o)
    /\ pass.prevE[o].tileX = pass.prevE[a].tileX
    /\ pass.prevE[o].tileY = pass.prevE[a].tileY + 2
    /\ ents[a].isMoving
    /\ ents[a].targetTileY = pass.prevE[a].tileY + 1

\* ========================================================================
\* Claims on the time charged by a decay step, in the step specification
\* ========================================================================

\* the last step was the decay section of agent a, and the decay ran
Decayed(a) ==
  /\ pass.step = "decay" /\ pass.id = a
  /\ ents[a].lastNeedUpdate # pass.prevE[a].lastNeedUpdate

\* C33: a decay step charges the time since the agent's previous decay step;
\* the first decay of an agent charges at most the time since the agent was
\* created, which is at most the time since the session started: every need
\* is then at least what a decay over that time leaves of it.
C33_FirstDecayBounded ==
  \A a \in PrevNpcs :
    Decayed(a) =>
      LET e == pass.prevE[a]
      IN  IF e.lastNeedUpdate = 0
          THEN \A k \in KindSet :
                 ents[a].needs[k].value
                   >= decayWithModifiers(e.needs, timeSystem, now - Epoch)[k].value
          ELSE ents[a].needs = decayWithModifiers(e.needs, timeSystem, now - e.lastNeedUpdate)

\* ========================================================================
\* The release specification: the game loop on agents and an item spawned on
\* one tile, with entity.remove() called on an agent between two frames
\* ========================================================================

\* frames a use of the longest definition takes, its first frame included
ReleaseFrames == 4

\* entity.remove() on an agent, between two frames, once in a session
RMark ==
  /\ pass.pc = "idle" /\ ticks < StepFrames
  /\ \A id \in DOMAIN ents : ~ents[id].markedForRemoval
  /\ \E id \in Npcs \cap Managed :
       ents' = [ents EXCEPT ![id].markedForRemoval = TRUE, ![id].active = FALSE]
  /\ pass' = Stepped("mark", NULL)
  /\ UNCHANGED <<now, frameMs, ticks, timeSystem, entities, entitiesByType, entitiesByPosition,
                 mapWidth, mapHeight, activityLogger, cItem, cRet, cNeeds, cOps>>

ReleaseNext == FrameStep \/ RMark

\* the game loop never stops before the last frame; remove() may never be called
ReleaseSpec == RefusalInit /\ [][ReleaseNext]_vars /\ WF_vars(FrameStep)

\* C34: every item that is InUse, with the frames of a whole use left in the
\* session, becomes Available again as the frames go on, also when its
\* occupant was marked for removal while using it.
C34_ItemReleased ==
  \A i \in 1..StepEntities :
    (/\ i \in Items /\ ents[i].inUse
     /\ ticks + ReleaseFrames <= StepFrames)
      ~> (i \in Items /\ ~ents[i].inUse)

\* ========================================================================
\* Claims on the outcome of tryHelpOthers, in the step specification
\* ========================================================================

\* the last step was a decision of agent a in which tryHelpOthers returned true
ReportedHelping(a) ==
  Decided(a) /\ tryHelpOthers(prevWorld, a).helping

\* C35: whenever tryHelpOthers returns true in a decision of agent a, a holds
\* as its goal an available item that satisfies the most urgent need of a
\* nearby agent in critical need, and has started to move to the tile of that
\* item; a decision in which goToItem rejects the move does not report
\* helping.
C35_HelpingMeansGoing ==
  \A a \in PrevNpcs :
    ReportedHelping(a) =>
      \E c \in HelpCalls(prevWorld, a) :
        /\ ents[a].targetItem = c[2]
        /\ ents[a].currentGoal # NullRec
        /\ ents[a].currentGoal.target = c[2]
        /\ ents[a].isMoving
        /\ ents[a].targetTileX = pass.prevE[c[2]].tileX
        /\ ents[a].targetTileY = pass.prevE[c[2]].tileY

\* ========================================================================
\* Claims on the flags of an agent, in the step specification
\* ========================================================================

\* C36: no agent is Moving and Using at the same time, and an agent that is
\* Using has a target item and a goal.
C36_MovingOrUsing ==
  \A a \in Npcs :
    /\ ~(ents[a].isMoving /\ ents[a].usingItem)
    /\ ents[a].usingItem => (ents[a].targetItem # NULL /\ ents[a].currentGoal # NullRec)

\* C36 witness: the movement section of an agent that was Moving ended with
\* the agent Using the item it arrived at.
C36_ArrivedAndUsing ==
  \E a \in PrevNpcs :
    /\ pass.step = "move" /\ pass.id = a
    /\ pass.prevE[a].isMoving /\ ~pass.prevE[a].usingItem
    /\ ents[a].usingItem
    /\ ents[ents[a].targetItem].usedBy = a

\* ========================================================================
\* Claims on the positions of the agents, in the move specification
\* ========================================================================

\* C37: every agent's tile and every agent's movement target are tiles of
\* the map.
C37_AgentsStayOnMap ==
  \A a \in Npcs :
    /\ <<ents[a].tileX, ents[a].tileY>> \in MapTiles
    /\ <<ents[a].targetTileX, ents[a].targetTileY>> \in MapTiles

\* C37 witness: an agent that had walked to the last tile of the map decided
\* there and started a move that does not lead to its target item.
C37_TurnedBackAtEdge ==
  \E a \in PrevNpcs :
    /\ Decided(a)
    /\ pass.prevE[a].tileX = mapWidth - 1
    /\ pass.prevE[a].lastAITime > 0
    /\ ents[a].isMoving
    /\ ents[a].targetTileX = mapWidth - 2
    /\ ents[a].targetItem = pass.prevE[a].targetItem

\* ========================================================================
\* The load specification: saveMap, a file edited by hand, loadMap, and the
\* item search of an agent
\* ========================================================================

\* calls made in one session
MaxLoadOps == 4

\* agent 1 anywhere on the map, item 2 on the centre tile
LoadInit ==
  /\ now = Epoch /\ frameMs = StepFrameMs /\ ticks = 0 /\ timeSystem = TimeSystem
  /\ mapWidth = StepWidth /\ mapHeight = StepHeight
  /\ activityLogger = ActivityLogger(50)
  /\ \E p \in MapTiles, d \in DefKeys, v \in SaveValues :
       LET agent == [NPC(p[1], p[2]) EXCEPT !.needs = needsAt([k \in KindSet |-> v]),
                                            !.lastNeedUpdate = Epoch, !.lastAITime = Epoch]
           E0 == <<agent, FunctionalItem(mapWidth \div 2, mapHeight \div 2, d)>>
           w0 == [E |-> E0, m |-> add(add(EntityManager, E0, 1), E0, 2)]
       IN  /\ ents = w0.E
           /\ entities = w0.m.entities
           /\ entitiesByType = w0.m.entitiesByType
           /\ entitiesByPosition = w0.m.entitiesByPosition
  /\ pass = IdlePass
  /\ cItem = NoItem /\ cNeeds = NoNeeds /\ cOps = 0
  /\ cRet = [op |-> "none", file |-> <<>>, threw |-> FALSE, found |-> NULL]

\* saveMap(): the entities of the file
LSave ==
  /\ cOps < MaxLoadOps
  /\ cRet' = [op |-> "save", threw |-> FALSE, found |-> NULL,
              file |-> [i \in DOMAIN managerSerialize(manager, ents) |->
                          stringifyEntry(managerSerialize(manager, ents)[i])]]
  /\ pass' = Stepped("save", NULL)
  /\ cOps' = cOps + 1
  /\ UNCHANGED <<worldVars, cItem, cNeeds>>

\* a file whose entries of type functional have no itemDef
LStripDef ==
  /\ cOps < MaxLoadOps
  /\ cRet.op = "save"
  /\ cRet' = [cRet EXCEPT !.op = "strip",
                          !.file = [i \in DOMAIN cRet.file |->
                                      [f \in DOMAIN cRet.file[i] \ {"itemDef"} |-> cRet.file[i][f]]]]
  /\ pass' = Stepped("strip", NULL)
  /\ cOps' = cOps + 1
  /\ UNCHANGED <<worldVars, cItem, cNeeds>>

\* loadMap(): the entities of the file replace those of the index
LLoad ==
  /\ cOps < MaxLoadOps
  /\ cRet.op \in {"save", "strip"}
  /\ SetWorld(managerDeserialize(world, [i \in DOMAIN cRet.file |-> parseEntry(cRet.file[i])]))
  /\ cRet' = [cRet EXCEPT !.op = "load"]
  /\ pass' = Stepped("load", NULL)
  /\ cOps' = cOps + 1
  /\ UNCHANGED <<now, frameMs, ticks, timeSystem, mapWidth, mapHeight, activityLogger, cItem, cNeeds>>

\* findItemForNeed(needType) of an agent of the index: the loop calls
\* item.canSatisfy on every entity of the functional bucket, which throws a
\* TypeError on an object that has no such method
LSearch ==
  /\ cOps < MaxLoadOps
  /\ \E a \in Npcs \cap Managed, needType \in KindSet :
       LET throws == \E i \in SeqToSet(getByType(manager, "functional")) : ~HasContract(ents[i])
       IN  /\ cRet' = [cRet EXCEPT !.op = "search", !.threw = throws,
                                   !.found = IF throws THEN NULL
                                             ELSE findItemForNeed(world, a, needType)]
           /\ pass' = Stepped("search", a)
  /\ cOps' = cOps + 1
  /\ UNCHANGED <<worldVars, cItem, cNeeds>>

LoadNext == LSave \/ LStripDef \/ LLoad \/ LSearch

LoadSpec == LoadInit /\ [][LoadNext]_vars

\* C38: after a map load every entity of the functional bucket is a
\* FunctionalItem, also when entries of type functional of the file have no
\* itemDef, and no item search of an agent throws.
C38_LoadedItemsUsable ==
  /\ pass.step = "load" =>
       \A i \in SeqToSet(entitiesByType["functional"]) : HasContract(ents[i])
  /\ pass.step = "search" => ~cRet.threw

\* ========================================================================
\* Claims on what an item-use completion changes, in the move specification
\* ========================================================================

\* C39: when the use of agent a completes, the needs of every other agent,
\* the agent a was helping included, are what they were, and so are the
\* relationship records of every agent.
C39_CompletionCreditsUserOnly ==
  \A a \in PrevNpcs :
    Completed(a) =>
      /\ \A b \in PrevNpcs \ {a} : ents[b].needs = pass.prevE[b].needs
      /\ \A b \in PrevNpcs : ents[b].relationships = pass.prevE[b].relationships

\* C39 witness: the use of an agent completed and credited it, while another
\* agent of the index, still walking to the same item, was in critical need
\* and its most urgent need was the kind of the completed goal.
C39_HelpedGotNothing ==
  \E a \in PrevNpcs : \E b \in (PrevNpcs \cap Managed) \ {a} :
    /\ Completed(a)
    /\ ents[a].needs # pass.prevE[a].needs
    /\ isCritical(pass.prevE[b].needs)
    /\ pass.prevE[b].isMoving
    /\ pass.prevE[b].targetItem = pass.prevE[a].targetItem
    /\ pass.prevE[a].currentGoal # NullRec
    /\ getMostUrgentNeed(pass.prevE[b].needs) = pass.prevE[a].currentGoal.needType
    /\ ents[b].needs = pass.prevE[b].needs

\* ========================================================================
\* Claims on the relationship records, in the approach specification
\* ========================================================================

\* C40: for any two agents, the relationship value and the interaction count
\* each holds for the other are equal.
C40_RelationshipsMutual ==
  \A a \in Npcs : \A b \in Npcs :
    /\ relValue(ents[a], b) = relValue(ents[b], a)
    /\ interactions(ents[a], b) = interactions(ents[b], a)

\* C40 witness: two agents have interacted twice, once on the initiative of
\* each: the second interaction was started by the partner of the first.
C40_TalkedBothWays ==
  \E a \in Actors : \E b \in Actors :
    /\ a # b
    /\ Chose(a, b)
    /\ interactions(pass.prevE[a], b) = 1
    /\ pass.prevE[a].needs["social"].value < pass.prevE[b].needs["social"].value
    /\ interactions(ents[a], b) = 2 /\ relValue(ents[a], b) = 10
    /\ interactions(ents[b], a) = 2 /\ relValue(ents[b], a) = 10

====
